---- MODULE Spec2Model ----
(***************************************************************************)
(* A model of the comms ConnectionManager                                  *)
(* (comms/src/connection_manager/manager.rs): the run() start-up sequence  *)
(* (bind listeners, start the Dialer, notify waiters), the select loop     *)
(* over the internal event queue, the request queue and the shutdown       *)
(* signal, and the request and event handlers.  The Dialer, the listeners, *)
(* the peer directory and the requesters are the manager's environment.    *)
(***************************************************************************)
EXTENDS Integers, Sequences, FiniteSets, TLC

\* ------------------------------------------------------------------ bounds

\* The number of requests the requesters submit in one run.
MaxRequests == 2
\* The number of events the listeners report in one run.
MaxEvents == 1
\* The number of inbound connections that arrive at the listener in one run.
MaxInbound == 3
\* The number of handler calls each of the base node's tasks makes.
MaxCalls == 2
\* The number of calls made on the wallet's AppState.
MaxWalletCalls == 4
\* The highest block height the chain reaches, and the longest list of
\* heights a FetchMatchingBlocks request asks for.
MaxHeight == 2
MaxBlockNums == 3
\* The longest list of validators a MempoolValidator is built with.
MaxValidators == 3

\* ------------------------------------------------------- program constants

EVENT_CHANNEL_SIZE == 32
DIALER_REQUEST_CHANNEL_SIZE == 32

\* ConnectionManagerConfig: max_dial_attempts has its default; the default of
\* max_simultaneous_inbound_connects is 20, and this configuration sets it to 2.
max_dial_attempts == 3
max_simultaneous_inbound_connects == 2

\* --------------------------------------------------------------- the data

NodeIds == {"n1", "n2"}
\* The node the requesters ask to dial and to cancel; the other one connects
\* inbound.
DialTargets == {"n1"}
\* The errors a lookup in the peer directory can end in.
DirectoryErrors == {"PeerNotFoundError", "DatabaseError"}
\* The protocol ids a substream can speak; the registered ones have a handler.
ProtocolIds == {"p_reg", "p_unreg"}
\* What Transport.listen can resolve the configured addresses to.
PrimaryAddrs == {"/memory/1"}
AuxAddrs == {"/ip4/127.0.0.1/tcp/1"}

Tokens == 1..MaxRequests

\* Option<T>: None is the empty sequence, Some(x) the sequence <<x>>.
None == <<>>
Some(x) == <<x>>

\* ListenerInfo losing the auxiliary listener's address.
ListenerInfo_NoAux(addr, aux) == [bind_address |-> addr, aux_bind_address |-> None]

ListenerInfo(addr, aux) == [bind_address |-> addr, aux_bind_address |-> aux]

\* A value on a oneshot reply channel (or its absence).
\*   by:   who called send ("manager", "dialer"), "nobody" while there is none
\*   kind: "none" (nothing sent, sender alive), "dropped" (sender dropped with
\*         no value), "ListenerInfo", "Ok" (a PeerConnection), "Err"
\*   err:  the error of an Err; wrapped: the error it wraps
\*   info: the ListenerInfo of a ListenerInfo reply
Reply(by, kind, err, wrapped, info) ==
    [by |-> by, kind |-> kind, err |-> err, wrapped |-> wrapped, info |-> info]
NoReply == Reply("nobody", "none", "", "", None)
Dropped == Reply("nobody", "dropped", "", "", None)

\* ConnectionManagerRequest
DialPeer(node_id, reply) == [type |-> "DialPeer", node_id |-> node_id, reply |-> reply]
CancelDial(node_id) == [type |-> "CancelDial", node_id |-> node_id, reply |-> 0]
NotifyListening(reply) == [type |-> "NotifyListening", node_id |-> "", reply |-> reply]

\* DialerRequest
Dial(peer, reply) == [type |-> "Dial", node_id |-> peer, reply |-> reply]
CancelPendingDial(node_id) == [type |-> "CancelPendingDial", node_id |-> node_id, reply |-> 0]

\* ConnectionManagerEvent
PeerConnected(node_id) == [type |-> "PeerConnected", node_id |-> node_id, protocol |-> ""]
PeerDisconnected(node_id) == [type |-> "PeerDisconnected", node_id |-> node_id, protocol |-> ""]
PeerConnectFailed(node_id) == [type |-> "PeerConnectFailed", node_id |-> node_id, protocol |-> ""]
PeerInboundConnectFailed == [type |-> "PeerInboundConnectFailed", node_id |-> "", protocol |-> ""]
NewInboundSubstream(node_id, protocol) ==
    [type |-> "NewInboundSubstream", node_id |-> node_id, protocol |-> protocol]

VARIABLES
    \* the ConnectionManager
    pc,                   \* where run() is
    listener,             \* Option<PeerListener>: TRUE while not taken
    aux_listener,         \* Option<PeerListener<TcpTransport>>: TRUE while Some
    dialer,               \* Option<Dialer>: TRUE while not taken
    shutdown_signal,      \* Option<ShutdownSignal>: TRUE while not taken
    listener_info,        \* Option<ListenerInfo>
    run_listener_info,    \* run_listeners' local `listener_info`
    listening_notifiers,  \* Vec<oneshot::Sender<ListenerInfo>>
    protocols,            \* the protocol ids with a registered handler
    sending,              \* Option<DialerRequest>: the request dialer_tx.send awaits on
    \* the channels
    request_rx,           \* the external request queue
    internal_event_rx,    \* the internal event queue
    dialer_rx,            \* the Dialer's request queue (dialer_tx's other end)
    dialer_rx_open,       \* FALSE once the Dialer dropped its receiver
    published,            \* what was sent on connection_manager_events_tx
    publish_failed,       \* one of those sends found no subscriber and returned Err
    notified,             \* what protocols.notify delivered to a handler
    replies,              \* the oneshot reply channels, by token
    shutdown,             \* the shutdown signal has fired
    \* history of run()
    primary_bind,         \* "none", "ok", "failed"
    aux_bind,             \* "none", "ok", "failed"
    handled_requests,     \* the number of requests handle_request was called with
    handled_events,       \* the number of events handle_event was called with
    dialer_forwarded,     \* the DialerRequests dialer_tx.send accepted, in order
    lookup,               \* token -> what find_by_node_id returned to its dial_peer
    early,                \* the NotifyListening replies waiting in the queue when run() entered the loop
    \* the environment
    submitted,            \* the number of requests submitted
    request_log,          \* the requests submitted, in the order the channel took them
    emitted,              \* the number of events the listeners reported
    dialer_started,       \* the Dialer task was spawned
    pending_dials,        \* the Dialer's table: NodeId -> the replies of the dial in flight
    connect_attempts,     \* NodeId -> the transport connect attempts now in progress
    \* the dial tasks and the inbound connection tasks, step by step
    dial_stage,           \* NodeId -> where the dial in flight is: "connect", "handshake", "identify"
    dial_attempts,        \* NodeId -> the connect attempts the last dial has made
    inbound_arrived,      \* the inbound connections the listener accepted
    inbound_waiting,      \* those waiting for a handshake slot
    inbound_handshakes,   \* those in the handshake
    inbound_identifying,  \* those past the handshake, in protocol identification
    inbound_finished      \* those whose task ended, in a PeerConnection or a failure

mgr_vars == <<pc, listener, aux_listener, dialer, shutdown_signal, listener_info,
              run_listener_info, listening_notifiers, protocols, sending>>
chan_vars == <<request_rx, internal_event_rx, dialer_rx, dialer_rx_open, published,
               publish_failed, notified, replies, shutdown>>
hist_vars == <<primary_bind, aux_bind, handled_requests, handled_events, dialer_forwarded,
               lookup, early>>
env_vars == <<submitted, request_log, emitted, dialer_started, pending_dials,
              connect_attempts>>
task_vars == <<dial_stage, dial_attempts, inbound_arrived, inbound_waiting,
               inbound_handshakes, inbound_identifying, inbound_finished>>

\* ------------------------------------------- the base node's inbound handlers

VARIABLES
    \* InboundNodeCommsHandlers (base_node/comms_interface/inbound_handlers.rs)
    new_block_request_semaphore,  \* the permits the shared Semaphore has left
    nb_pc,            \* task -> the await its handler call is at, "idle" between calls
    nb_args,          \* task -> the arguments of its call
    nb_permit,        \* task -> its call holds `_permit`
    nb_trace,         \* task -> what its (last) call has done so far and returned
    nb_calls,         \* task -> the calls it has made
    blocks,           \* the block hashes the blockchain db has on the chain
    orphans,          \* the block hashes in its orphan pool
    fetched,          \* the hashes a handle_new_block_message call fetched and stored
    late_requests     \* the requests to a peer for a hash that was in `fetched`

node_vars == <<new_block_request_semaphore, nb_pc, nb_args, nb_permit, nb_trace, nb_calls,
               blocks, orphans, fetched, late_requests>>

\* ----------------------------------------- the console wallet's AppState

VARIABLES
    \* AppStateInner and AppState (tari_console_wallet/src/ui/state/app_state.rs)
    updated,          \* AppStateInner::updated
    data,             \* AppStateInner::data, an AppStateData
    cached_data,      \* AppState::cached_data
    written,          \* a call has assigned to `data` since the last get_updated_app_state
    last_call,        \* the last call on the AppState and what it returned
    wallet_calls      \* the calls made on the AppState

wallet_vars == <<updated, data, cached_data, written, last_call, wallet_calls>>

\* --------------------------- the base node's FetchMatchingBlocks request

VARIABLES
    \* InboundNodeCommsHandlers::handle_request, FetchMatchingBlocks arm
    chain_tip,        \* the height of the last block the blockchain db holds
    fetch_pc,         \* "idle", "fetch_block" (at that await) or "returned"
    block_nums,       \* the heights the request asks for
    block_i,          \* the position of the loop in block_nums
    historical_blocks,\* the `blocks` Vec built by the loop
    fetch_results,    \* what fetch_block answered for block_nums[1..block_i-1]
    fetch_response    \* what handle_request returned

fetch_vars == <<chain_tip, fetch_pc, block_nums, block_i, historical_blocks,
                fetch_results, fetch_response>>

\* ------------------------------------------------ the mempool's validator

VARIABLES
    \* MempoolValidator (core/src/validation/transaction_validators.rs)
    validators,       \* MempoolValidator::validators
    transaction,      \* the transaction of the last validate call
    ran,              \* the positions of the validators that call ran, in order
    validate_result   \* what the call returned

validator_vars == <<validators, transaction, ran, validate_result>>

\* ------------------------------------- the wallet's transaction monitoring

VARIABLES
    \* monitor_transactions and its caller command_runner
    \* (tari_console_wallet/src/automation/commands.rs)
    tx_ids,           \* the ids of the transactions the commands sent
    wait_stage,       \* the TransactionStage to monitor them to
    results,          \* the `results` Vec of monitor_transactions
    monitor_pc,       \* "idle", "next" (at event_stream.next().await), "done"
    monitor_exit,     \* how the loop was left
    printed,          \* what command_runner printed after the monitoring
    reached           \* the ids of tx_ids an event of the wait stage arrived for

monitor_vars == <<tx_ids, wait_stage, results, monitor_pc, monitor_exit, printed, reached>>

\* ------------------------------------------- the requesters' channel ends

VARIABLES
    \* the sending half of the request channel and the Fuse around its receiver
    requesters_dropped,    \* every ConnectionManagerRequester has been dropped
    request_rx_terminated  \* request_rx (a Fuse) has yielded None

requester_vars == <<requesters_dropped, request_rx_terminated>>

\* --------------------------------------------- a clone of the wallet's AppState

VARIABLES
    \* AppState::clone (#[derive(Clone)]): the Arc is shared, the cache copied
    cloned,                \* the clone has been made
    clone_cached_data      \* the clone's cached_data

clone_vars == <<cloned, clone_cached_data>>

\* The connection manager and its environment; the other components.
conn_vars == <<mgr_vars, chan_vars, hist_vars, env_vars, task_vars>>
ext_vars == <<node_vars, wallet_vars, fetch_vars, validator_vars, monitor_vars,
              requester_vars, clone_vars>>
vars == <<conn_vars, ext_vars>>

Range(q) == {q[i] : i \in DOMAIN q}

\* ------------------------------------------------------------------- Init

\* The tasks that call the inbound handlers, each with its own clone of them:
\* two that handle the NewBlock messages of their peers, and one that hands
\* whole blocks (of the local services, or of its peer) to handle_block.
NodeTasks == {"t1", "t2", "t3"}
NewBlockTasks == {"t1", "t2"}
BlockTasks == {"t3"}
SourcePeer(t) == CASE t = "t1" -> "p1" [] t = "t2" -> "p2" [] OTHER -> "p3"
BlockHashes == {"b1"}

\* The arguments of a handler call, and what a call has done.
NoCall == [op |-> "none", block_hash |-> "", broadcast |-> FALSE, source_peer |-> None]
NoTrace ==
    [after_fetch |-> FALSE, exists |-> "none", requested |-> FALSE, add_block |-> "none",
     cleanup |-> "none", events |-> <<>>, propagated |-> None, result |-> "none"]

\* InboundNodeCommsHandlers::new: Semaphore::new(1); Clone clones the Arc, so
\* every clone shares the one semaphore.
NodeInit ==
    /\ new_block_request_semaphore = 1
    /\ nb_pc = [t \in NodeTasks |-> "idle"]
    /\ nb_args = [t \in NodeTasks |-> NoCall]
    /\ nb_permit = [t \in NodeTasks |-> FALSE]
    /\ nb_trace = [t \in NodeTasks |-> NoTrace]
    /\ nb_calls = [t \in NodeTasks |-> 0]
    /\ blocks = {}
    /\ orphans = {}
    /\ fetched = {}
    /\ late_requests = {}

\* The transactions of the wallet; a transaction's timestamp grows with its id.
TxIds == {1, 2}
timestamp(tx) == tx.tx_id
\* What get_balance and a TransactionMinedUnconfirmed event can report.
Balances == {0, 1}
ConfirmationCounts == {1, 2}

\* CompletedTransaction, as far as the AppState looks at it.
CompletedTransaction(tx_id, status, cancelled) ==
    [tx_id |-> tx_id, status |-> status, cancelled |-> cancelled]

\* What the transaction service can hold for a transaction id.
BackendTransactions(tx_id) ==
    {CompletedTransaction(tx_id, "Pending", FALSE),
     CompletedTransaction(tx_id, "Pending", TRUE),
     CompletedTransaction(tx_id, "Completed", FALSE)}

\* AppStateData::new
NewAppStateData ==
    [pending_txs |-> <<>>, completed_txs |-> <<>>,
     confirmations |-> [t \in TxIds |-> None], balance |-> 0]

NoWalletCall == [op |-> "none", tx_id |-> 0, found |-> None, result |-> "none"]

\* AppState::new: AppStateInner::new with updated: false, and the cache a
\* clone of its data.
WalletInit ==
    /\ updated = FALSE
    /\ data = NewAppStateData
    /\ cached_data = NewAppStateData
    /\ written = FALSE
    /\ last_call = NoWalletCall
    /\ wallet_calls = 0

\* A blockchain db holding the genesis block, and no request handled yet.
FetchInit ==
    /\ chain_tip = 0
    /\ fetch_pc = "idle"
    /\ block_nums = <<>>
    /\ block_i = 1
    /\ historical_blocks = <<>>
    /\ fetch_results = <<>>
    /\ fetch_response = None

\* MempoolValidator::new with no validators, and no validate call made yet.
ValidatorInit ==
    /\ validators = <<>>
    /\ transaction = "none"
    /\ ran = <<>>
    /\ validate_result = "none"

\* command_runner before it has run a command.
MonitorInit ==
    /\ tx_ids = <<>>
    /\ wait_stage = "Initiated"
    /\ results = <<>>
    /\ monitor_pc = "idle"
    /\ monitor_exit = "none"
    /\ printed = "none"
    /\ reached = {}

\* The requesters hold their senders.
RequesterInit ==
    /\ requesters_dropped = FALSE
    /\ request_rx_terminated = FALSE

\* The AppState has not been cloned.
CloneInit ==
    /\ cloned = FALSE
    /\ clone_cached_data = NewAppStateData

\* The other components as constructed, with no call made on them.
ExtInit ==
    /\ NodeInit /\ WalletInit /\ FetchInit /\ ValidatorInit /\ MonitorInit
    /\ RequesterInit /\ CloneInit

\* ConnectionManager::new followed by add_protocols; the configuration either
\* sets auxilary_tcp_listener_address or leaves it None.
ConnInit ==
    /\ pc = "new"
    /\ listener = TRUE
    /\ aux_listener \in BOOLEAN
    /\ dialer = TRUE
    /\ shutdown_signal = TRUE
    /\ listener_info = None
    /\ run_listener_info = ListenerInfo("", None)
    /\ listening_notifiers = <<>>
    /\ protocols = {"p_reg"}
    /\ sending = None
    /\ request_rx = <<>>
    /\ internal_event_rx = <<>>
    /\ dialer_rx = <<>>
    /\ dialer_rx_open = TRUE
    /\ published = <<>>
    /\ publish_failed = FALSE
    /\ notified = <<>>
    /\ replies = [t \in Tokens |-> NoReply]
    /\ shutdown = FALSE
    /\ primary_bind = "none"
    /\ aux_bind = "none"
    /\ handled_requests = 0
    /\ handled_events = 0
    /\ dialer_forwarded = <<>>
    /\ lookup = [t \in Tokens |-> "none"]
    /\ early = {}
    /\ submitted = 0
    /\ request_log = <<>>
    /\ emitted = 0
    /\ dialer_started = FALSE
    /\ pending_dials = [n \in NodeIds |-> None]
    /\ connect_attempts = [n \in NodeIds |-> 0]
    /\ dial_stage = [n \in NodeIds |-> "none"]
    /\ dial_attempts = [n \in NodeIds |-> 0]
    /\ inbound_arrived = 0
    /\ inbound_waiting = 0
    /\ inbound_handshakes = 0
    /\ inbound_identifying = 0
    /\ inbound_finished = 0

Init == ConnInit /\ ExtInit

\* ------------------------------------------------- the manager: start-up

\* Where the NotifyListening requests are in a queue of requests.
NotifyListeningAt(q) == {i \in DOMAIN q : q[i].type = "NotifyListening"}

\* The reply tokens a queue of requests carries.
ReplyTokens(q) == {q[i].reply : i \in DOMAIN q} \ {0}

\* Dropping the oneshot senders `ts` that have sent nothing.
DropSenders(reps, ts) ==
    [t \in Tokens |-> IF t \in ts /\ reps[t].kind = "none" THEN Dropped ELSE reps[t]]

\* notify_all_ready: every queued notifier is sent a clone of listener_info.
notify_all_ready(info, notifiers, reps) ==
    [t \in Tokens |->
        IF t \in Range(notifiers)
        THEN Reply("manager", "ListenerInfo", "", "", Some(info))
        ELSE reps[t]]

\* AfterPrimaryListen with the Err arm's `return` lost: run() goes on after a
\* failed bind.
AfterPrimaryListen_NoReturn(ok, has_aux) == IF has_aux THEN "bind_aux" ELSE "loop"

\* Where run() goes once the primary listener's listen() has resolved:
\* run_listeners returns the error, and run() returns on it.
AfterPrimaryListen(ok, has_aux) ==
    IF ~ok THEN "returned" ELSE IF has_aux THEN "bind_aux" ELSE "loop"

\* AfterAuxListen with the error swallowed instead of returned by `?`: the
\* manager goes on without the auxiliary listener.
AfterAuxListen_Degrade(ok) == "loop"

\* AfterAuxListen returning from run() whatever listen() resolved to.
AfterAuxListen_AlwaysReturn(ok) == "returned"

\* Where run() goes once the auxiliary listener's listen() has resolved:
\* `listener.listen().await?` returns the error from run_listeners.
AfterAuxListen(ok) == IF ok THEN "loop" ELSE "returned"

\* run() returns: the manager, consumed by run(), is dropped, and with it the
\* request receiver (the queued requests and their reply senders), the queued
\* notifiers, the request being sent, and a Dialer that was never spawned.
ReturnFromRun ==
    /\ pc' = "returned"
    /\ replies' = DropSenders(replies,
            ReplyTokens(request_rx) \cup Range(listening_notifiers)
                \cup ReplyTokens(sending) \cup (IF dialer THEN ReplyTokens(dialer_rx) ELSE {}))
    /\ request_rx' = <<>>
    /\ internal_event_rx' = <<>>
    /\ listening_notifiers' = <<>>
    /\ sending' = None
    /\ dialer_rx' = IF dialer THEN <<>> ELSE dialer_rx
    /\ dialer_rx_open' = IF dialer THEN FALSE ELSE dialer_rx_open
    /\ UNCHANGED <<listener_info, dialer, dialer_started, early>>

\* run(), from run_listeners' Ok to the loop: listener_info is set, run_dialer
\* takes and spawns the Dialer, notify_all_ready answers the queued notifiers.
StartLoop(info) ==
    /\ pc' = "loop"
    /\ listener_info' = Some(info)
    /\ dialer' = FALSE
    /\ dialer_started' = TRUE
    /\ replies' = notify_all_ready(info, listening_notifiers, replies)
    /\ listening_notifiers' = <<>>
    /\ early' = {request_rx[i].reply : i \in NotifyListeningAt(request_rx)}
    /\ UNCHANGED <<request_rx, internal_event_rx, sending, dialer_rx, dialer_rx_open>>

\* Neither returning nor entering the loop: run_listeners goes on.
StayInRunListeners(next) ==
    /\ pc' = next
    /\ UNCHANGED <<listener_info, dialer, dialer_started, replies, listening_notifiers,
                   request_rx, internal_event_rx, sending, dialer_rx, dialer_rx_open, early>>

\* run() up to the primary listener's listen().await resolving.
BindPrimary ==
    /\ pc = "new"
    /\ shutdown_signal' = FALSE
    /\ listener' = FALSE
    /\ \E ok \in BOOLEAN, addr \in PrimaryAddrs :
        LET next == AfterPrimaryListen(ok, aux_listener) IN
        /\ primary_bind' = IF ok THEN "ok" ELSE "failed"
        /\ run_listener_info' = ListenerInfo(IF ok THEN addr ELSE "", None)
        /\ CASE next = "returned" -> ReturnFromRun
             [] next = "loop" -> StartLoop(run_listener_info')
             [] OTHER -> StayInRunListeners(next)
    /\ UNCHANGED <<aux_listener, protocols, published, publish_failed, notified, shutdown, aux_bind,
                   handled_requests, handled_events, dialer_forwarded, lookup, submitted, request_log,
                   emitted, pending_dials, connect_attempts>>
    /\ UNCHANGED <<task_vars, ext_vars>>

\* run_listeners from `self.aux_listener.take()` to its listen().await resolving.
BindAux ==
    /\ pc = "bind_aux"
    /\ aux_listener' = FALSE
    /\ \E ok \in BOOLEAN, addr \in AuxAddrs :
        LET next == AfterAuxListen(ok) IN
        /\ aux_bind' = IF ok THEN "ok" ELSE "failed"
        /\ run_listener_info' =
                IF ok THEN ListenerInfo(run_listener_info.bind_address, Some(addr))
                ELSE run_listener_info
        /\ CASE next = "returned" -> ReturnFromRun
             [] next = "loop" -> StartLoop(run_listener_info')
             [] OTHER -> StayInRunListeners(next)
    /\ UNCHANGED <<listener, shutdown_signal, protocols, published, publish_failed, notified, shutdown,
                   primary_bind, handled_requests, handled_events, dialer_forwarded,
                   lookup, submitted, request_log, emitted, pending_dials, connect_attempts>>
    /\ UNCHANGED <<task_vars, ext_vars>>

\* ---------------------------------------------------- the manager: the loop

\* PeerManager::find_by_node_id: the peer, or the directory's error.  The
\* directory is shared with the other tasks, which add and remove peers, so
\* the same NodeId is found by one lookup and unknown to another.
find_by_node_id(node_id) ==
    {[ok |-> TRUE, err |-> ""]} \cup {[ok |-> FALSE, err |-> e] : e \in DirectoryErrors}

\* DialPeerLookupErr reporting every directory error as an unknown peer.
DialPeerLookupErr_NotFound(err) ==
    Reply("manager", "Err", "PeerManagerError", "PeerNotFoundError", None)

\* dial_peer's Err arm: the value sent on the reply channel.
DialPeerLookupErr(err) == Reply("manager", "Err", "PeerManagerError", err, None)

\* dial_peer: what the lookup's result `found` makes of DialPeer(node_id, reply):
\* the DialerRequest to send (or None) and the reply channels after it.
dial_peer(node_id, reply, found, reps) ==
    IF found.ok
    THEN [send |-> Some(Dial(node_id, reply)), replies |-> reps]
    ELSE [send |-> None,
          replies |-> [reps EXCEPT ![reply] = DialPeerLookupErr(found.err)]]

\* notify_listening answering with the primary address alone.
notify_listening_PrimaryOnly(reply, info, notifiers, reps) ==
    IF info # None
    THEN [notifiers |-> notifiers,
          replies |-> [reps EXCEPT ![reply] =
                          Reply("manager", "ListenerInfo", "", "",
                                Some(ListenerInfo(info[1].bind_address, None)))]]
    ELSE [notifiers |-> Append(notifiers, reply), replies |-> reps]

\* notify_listening queueing the reply whether or not the listeners are bound.
notify_listening_AlwaysQueue(reply, info, notifiers, reps) ==
    [notifiers |-> Append(notifiers, reply), replies |-> reps]

\* handle_request's NotifyListening arm: an immediate reply when listener_info
\* is Some, the reply pushed on listening_notifiers when it is None.
notify_listening(reply, info, notifiers, reps) ==
    IF info # None
    THEN [notifiers |-> notifiers,
          replies |-> [reps EXCEPT ![reply] =
                          Reply("manager", "ListenerInfo", "", "", Some(info[1]))]]
    ELSE [notifiers |-> Append(notifiers, reply), replies |-> reps]

\* handle_request's CancelDial arm: what is sent to the Dialer.
cancel_dial(node_id) == Some(CancelPendingDial(node_id))

\* handle_request, up to the dialer_tx.send(..).await resolving in the DialPeer
\* and CancelDial arms (the whole of it when it sends nothing).
handle_request ==
    /\ pc = "loop"
    /\ request_rx # <<>>
    /\ LET request == Head(request_rx) IN
       /\ request_rx' = Tail(request_rx)
       /\ handled_requests' = handled_requests + 1
       /\ CASE request.type = "DialPeer" ->
                 \E found \in find_by_node_id(request.node_id) :
                    LET r == dial_peer(request.node_id, request.reply, found, replies) IN
                    /\ sending' = r.send
                    /\ replies' = r.replies
                    /\ pc' = IF r.send # None THEN "send_dialer_request" ELSE "loop"
                    /\ lookup' = [lookup EXCEPT ![request.reply] =
                                      IF found.ok THEN "ok" ELSE found.err]
                    /\ UNCHANGED listening_notifiers
            [] request.type = "CancelDial" ->
                 /\ sending' = cancel_dial(request.node_id)
                 /\ pc' = "cancel_dial_send"
                 /\ UNCHANGED <<replies, listening_notifiers, lookup>>
            [] OTHER ->
                 LET r == notify_listening(request.reply, listener_info,
                                           listening_notifiers, replies) IN
                 /\ listening_notifiers' = r.notifiers
                 /\ replies' = r.replies
                 /\ UNCHANGED <<pc, sending, lookup>>
    /\ UNCHANGED <<listener, aux_listener, dialer, shutdown_signal, listener_info,
                   run_listener_info, protocols, internal_event_rx, dialer_rx,
                   dialer_rx_open, published, publish_failed, notified, shutdown, primary_bind, aux_bind,
                   handled_events, dialer_forwarded, early, env_vars>>
    /\ UNCHANGED <<task_vars, ext_vars>>

\* What a bounded futures mpsc channel holds before send() waits: its buffer
\* and one guaranteed slot for each sender (dialer_tx is the only one).
DialerChannelRoom == Len(dialer_rx) < DIALER_REQUEST_CHANNEL_SIZE + 1

\* DialerTxSend queueing the request twice.
DialerTxSend_Twice(req) ==
    IF dialer_rx_open
    THEN /\ DialerChannelRoom
         /\ dialer_rx' = dialer_rx \o <<req, req>>
         /\ dialer_forwarded' = dialer_forwarded \o <<req, req>>
         /\ UNCHANGED replies
    ELSE /\ replies' = DropSenders(replies, ReplyTokens(<<req>>))
         /\ UNCHANGED <<dialer_rx, dialer_forwarded>>

\* DialerTxSend waiting for ever on a channel whose receiver is gone.
DialerTxSend_WaitsWhenClosed(req) ==
    /\ dialer_rx_open
    /\ DialerChannelRoom
    /\ dialer_rx' = Append(dialer_rx, req)
    /\ dialer_forwarded' = Append(dialer_forwarded, req)
    /\ UNCHANGED replies

\* DialerTxSend queueing the request ahead of the ones that wait.
DialerTxSend_Front(req) ==
    IF dialer_rx_open
    THEN /\ DialerChannelRoom
         /\ dialer_rx' = <<req>> \o dialer_rx
         /\ dialer_forwarded' = <<req>> \o dialer_forwarded
         /\ UNCHANGED replies
    ELSE /\ replies' = DropSenders(replies, ReplyTokens(<<req>>))
         /\ UNCHANGED <<dialer_rx, dialer_forwarded>>

\* dialer_tx.send(req).await resolving: the request is queued once the channel
\* has room; on a channel whose receiver is gone the send fails, the caller
\* logs the error, and the request is dropped with the reply sender it holds.
DialerTxSend(req) ==
    IF dialer_rx_open
    THEN /\ DialerChannelRoom
         /\ dialer_rx' = Append(dialer_rx, req)
         /\ dialer_forwarded' = Append(dialer_forwarded, req)
         /\ UNCHANGED replies
    ELSE /\ replies' = DropSenders(replies, ReplyTokens(<<req>>))
         /\ UNCHANGED <<dialer_rx, dialer_forwarded>>

\* AfterDialerSend with the send's error propagated out of run().
AfterDialerSend_ErrReturns(ok) == IF ok THEN "loop" ELSE "returned"

\* Where run() is after a send to the Dialer resolved, Ok or Err: the error is
\* logged and the handler returns to the loop.
AfterDialerSend(ok) == "loop"

\* The rest of a handler that awaits a send to the Dialer.
FinishSend(at) ==
    /\ pc = at
    /\ DialerTxSend(sending[1])
    /\ sending' = None
    /\ pc' = AfterDialerSend(dialer_rx_open)
    /\ UNCHANGED <<listener, aux_listener, dialer, shutdown_signal, listener_info,
                   run_listener_info, listening_notifiers, protocols, request_rx,
                   internal_event_rx, dialer_rx_open, published, publish_failed, notified, shutdown,
                   primary_bind, aux_bind, handled_requests, handled_events, lookup,
                   early, env_vars>>
    /\ UNCHANGED <<task_vars, ext_vars>>

\* send_dialer_request, from its dialer_tx.send(req).await resolving: the rest
\* of dial_peer's Ok arm.
send_dialer_request == FinishSend("send_dialer_request")

\* handle_request's CancelDial arm, from its dialer_tx.send(..).await resolving.
cancel_dial_send == FinishSend("cancel_dial_send")

\* connection_manager_events_tx.send: the broadcast channel hands the event to
\* its subscribers, or returns an error when it has none.  Subscribers come and
\* go in other tasks, so either can be the case at any send.
events_tx_send == BOOLEAN

\* publish_event sending the event ahead of the ones sent before it.
publish_event_Front(event, pub) == <<event>> \o pub

\* publish_event: the event is sent on the broadcast channel; an error (no
\* subscriber) is ignored.
publish_event(event, pub) == Append(pub, event)

\* AfterPublish with the broadcast channel's error ending run().
AfterPublish_ErrReturns(ok) == IF ok THEN "loop" ELSE "returned"

\* Where run() is after publish_event: `let _ = ...send(..)` ignores the result.
AfterPublish(ok) == "loop"

\* protocols_notify delivering to a handler whether one is registered or not.
protocols_notify_Any(protocol, event, sent) == Append(sent, event)

\* Protocols::notify: the event is delivered to the handler registered for the
\* protocol; with none registered, notify returns an error.
protocols_notify(protocol, event, sent) ==
    IF protocol \in protocols THEN Append(sent, event) ELSE sent

\* AfterNotify with notify's error ending run().
AfterNotify_ErrReturns(ok) == IF ok THEN "loop" ELSE "returned"

\* Where run() is after protocols.notify(..).await: an Err is logged.
AfterNotify(ok) == "loop"

\* IsSubstreamEvent matching no event: every event takes the publishing arm.
IsSubstreamEvent_Never(event) == FALSE

\* handle_event's match: the NewInboundSubstream arm, or the catch-all arm.
IsSubstreamEvent(event) == event.type = "NewInboundSubstream"

\* handle_event: a NewInboundSubstream goes to the protocol's handler (an
\* error is logged), every other event is published.
handle_event ==
    /\ pc = "loop"
    /\ internal_event_rx # <<>>
    /\ LET event == Head(internal_event_rx) IN
       /\ internal_event_rx' = Tail(internal_event_rx)
       /\ handled_events' = handled_events + 1
       /\ IF IsSubstreamEvent(event)
          THEN /\ notified' = protocols_notify(event.protocol, event, notified)
               /\ pc' = AfterNotify(event.protocol \in protocols)
               /\ UNCHANGED <<published, publish_failed>>
          ELSE /\ published' = publish_event(event, published)
               /\ \E ok \in events_tx_send :
                     /\ publish_failed' = (publish_failed \/ ~ok)
                     /\ pc' = AfterPublish(ok)
               /\ UNCHANGED notified
    /\ UNCHANGED <<listener, aux_listener, dialer, shutdown_signal, listener_info,
                   run_listener_info, listening_notifiers, protocols, sending,
                   request_rx, dialer_rx, dialer_rx_open, replies, shutdown,
                   primary_bind, aux_bind, handled_requests, dialer_forwarded, lookup,
                   early, env_vars>>
    /\ UNCHANGED <<task_vars, ext_vars>>

\* The select's shutdown arm: the loop breaks and run() returns.
run_shutdown ==
    /\ pc = "loop"
    /\ shutdown
    /\ ReturnFromRun
    /\ UNCHANGED <<listener, aux_listener, shutdown_signal, run_listener_info, protocols,
                   published, publish_failed, notified, shutdown, hist_vars, submitted, request_log, emitted,
                   pending_dials, connect_attempts>>
    /\ UNCHANGED <<task_vars, ext_vars>>

\* -------------------------------------------------------- the environment

\* A requester sends a request on the request channel; the channel is closed
\* once run() has returned and dropped the receiver.
Submit ==
    /\ submitted < MaxRequests
    /\ pc # "returned"
    /\ LET t == submitted + 1 IN
       \E req \in {DialPeer(n, t) : n \in DialTargets} \cup {CancelDial(n) : n \in DialTargets}
                    \cup {NotifyListening(t)} :
          /\ request_rx' = Append(request_rx, req)
          /\ request_log' = Append(request_log, req)
          /\ submitted' = t
    /\ UNCHANGED <<mgr_vars, internal_event_rx, dialer_rx, dialer_rx_open, published, publish_failed,
                   notified, replies, shutdown, hist_vars, emitted, dialer_started,
                   pending_dials, connect_attempts>>
    /\ UNCHANGED <<task_vars, ext_vars>>

\* The shutdown signal fires (at most once).
FireShutdown ==
    /\ ~shutdown
    /\ shutdown' = TRUE
    /\ UNCHANGED <<mgr_vars, request_rx, internal_event_rx, dialer_rx, dialer_rx_open,
                   published, publish_failed, notified, replies, hist_vars, env_vars>>
    /\ UNCHANGED <<task_vars, ext_vars>>

\* The internal event channel takes an event while it has room and its
\* receiver is alive.
EventChannelRoom == pc # "returned" /\ Len(internal_event_rx) < EVENT_CHANNEL_SIZE

\* A bound listener reports a failed inbound connection, a disconnect or a
\* new substream on the internal event channel.
ListenerEmit ==
    /\ primary_bind = "ok"
    /\ emitted < MaxEvents
    /\ EventChannelRoom
    /\ \E event \in {PeerDisconnected("n2"), PeerInboundConnectFailed}
                      \cup {NewInboundSubstream("n2", p) : p \in ProtocolIds} :
          internal_event_rx' = Append(internal_event_rx, event)
    /\ emitted' = emitted + 1
    /\ UNCHANGED <<mgr_vars, request_rx, dialer_rx, dialer_rx_open, published, publish_failed, notified,
                   replies, shutdown, hist_vars, submitted, request_log, dialer_started,
                   pending_dials, connect_attempts>>
    /\ UNCHANGED <<task_vars, ext_vars>>

\* Resolving the oneshot senders `ts` with the value `v`.
Resolve(reps, ts, v) == [t \in Tokens |-> IF t \in ts THEN v ELSE reps[t]]

\* A Dialer that takes no request while the internal event queue is full.
DialerRunning_WaitsToReport == dialer_started /\ dialer_rx_open /\ EventChannelRoom

\* The Dialer's loop runs and takes requests: the dial tasks report their
\* outcomes themselves, so a full event queue does not hold the loop up.
DialerRunning == dialer_started /\ dialer_rx_open

\* The replies that wait for the dial to `n` in flight.
JoinedReplies(n) == IF pending_dials[n] = None THEN {} ELSE pending_dials[n][1]

\* The Dialer takes Dial(peer, reply) with no dial to the peer in flight: a
\* dial task starts its connect attempts.
DialerStartDial ==
    /\ DialerRunning
    /\ dialer_rx # <<>>
    /\ LET req == Head(dialer_rx) IN
       /\ req.type = "Dial"
       /\ pending_dials[req.node_id] = None
       /\ pending_dials' = [pending_dials EXCEPT ![req.node_id] = Some({req.reply})]
       /\ connect_attempts' = [connect_attempts EXCEPT ![req.node_id] = @ + 1]
    /\ dialer_rx' = Tail(dialer_rx)
    /\ UNCHANGED <<mgr_vars, request_rx, internal_event_rx, dialer_rx_open, published, publish_failed,
                   notified, replies, shutdown, hist_vars, submitted, request_log, emitted,
                   dialer_started>>
    /\ UNCHANGED <<task_vars, ext_vars>>

\* DialerJoinDial without the single-flight table: the second Dial starts a
\* transport connect attempt of its own.
DialerJoinDial_Duplicate ==
    /\ DialerRunning
    /\ dialer_rx # <<>>
    /\ LET req == Head(dialer_rx) IN
       /\ req.type = "Dial"
       /\ pending_dials[req.node_id] # None
       /\ pending_dials' = [pending_dials EXCEPT ![req.node_id] = Some(@[1] \cup {req.reply})]
       /\ connect_attempts' = [connect_attempts EXCEPT ![req.node_id] = @ + 1]
    /\ dialer_rx' = Tail(dialer_rx)
    /\ UNCHANGED <<mgr_vars, request_rx, internal_event_rx, dialer_rx_open, published, publish_failed,
                   notified, replies, shutdown, hist_vars, submitted, request_log, emitted,
                   dialer_started>>
    /\ UNCHANGED <<task_vars, ext_vars>>

\* The Dialer takes Dial(peer, reply) while a dial to the peer is in flight:
\* the reply joins the dial in flight.
DialerJoinDial ==
    /\ DialerRunning
    /\ dialer_rx # <<>>
    /\ LET req == Head(dialer_rx) IN
       /\ req.type = "Dial"
       /\ pending_dials[req.node_id] # None
       /\ pending_dials' = [pending_dials EXCEPT ![req.node_id] = Some(@[1] \cup {req.reply})]
    /\ dialer_rx' = Tail(dialer_rx)
    /\ UNCHANGED <<mgr_vars, request_rx, internal_event_rx, dialer_rx_open, published, publish_failed,
                   notified, replies, shutdown, hist_vars, submitted, request_log, emitted,
                   dialer_started, connect_attempts>>
    /\ UNCHANGED <<task_vars, ext_vars>>

\* ... or the Dialer rejects it as a duplicate.
DialerRejectDial ==
    /\ DialerRunning
    /\ dialer_rx # <<>>
    /\ LET req == Head(dialer_rx) IN
       /\ req.type = "Dial"
       /\ pending_dials[req.node_id] # None
       /\ replies' = Resolve(replies, {req.reply}, Reply("dialer", "Err", "DialDuplicate", "", None))
    /\ dialer_rx' = Tail(dialer_rx)
    /\ UNCHANGED <<mgr_vars, request_rx, internal_event_rx, dialer_rx_open, published, publish_failed,
                   notified, shutdown, hist_vars, env_vars>>
    /\ UNCHANGED <<task_vars, ext_vars>>

\* The Dialer takes CancelPendingDial(node_id): a dial in flight is aborted
\* and its replies resolve to the cancellation; with none it is a no-op.
DialerCancel ==
    /\ DialerRunning
    /\ dialer_rx # <<>>
    /\ LET req == Head(dialer_rx) IN
       /\ req.type = "CancelPendingDial"
       /\ IF pending_dials[req.node_id] # None
          THEN /\ replies' = Resolve(replies, pending_dials[req.node_id][1],
                                     Reply("dialer", "Err", "DialCancelled", "", None))
               /\ pending_dials' = [pending_dials EXCEPT ![req.node_id] = None]
               /\ connect_attempts' = [connect_attempts EXCEPT ![req.node_id] = 0]
          ELSE UNCHANGED <<replies, pending_dials, connect_attempts>>
    /\ dialer_rx' = Tail(dialer_rx)
    /\ UNCHANGED <<mgr_vars, request_rx, internal_event_rx, dialer_rx_open, published, publish_failed,
                   notified, shutdown, hist_vars, submitted, request_log, emitted,
                   dialer_started>>
    /\ UNCHANGED <<task_vars, ext_vars>>

\* A dial in flight ends: PeerConnected and a PeerConnection for every reply,
\* or PeerConnectFailed and the dial error for every reply.
DialerFinish ==
    /\ DialerRunning
    /\ EventChannelRoom
    /\ \E n \in NodeIds, ok \in BOOLEAN :
        /\ pending_dials[n] # None
        /\ replies' = Resolve(replies, pending_dials[n][1],
                              IF ok THEN Reply("dialer", "Ok", "", "", None)
                              ELSE Reply("dialer", "Err", "ConnectFailed", "", None))
        /\ internal_event_rx' =
              Append(internal_event_rx, IF ok THEN PeerConnected(n) ELSE PeerConnectFailed(n))
        /\ pending_dials' = [pending_dials EXCEPT ![n] = None]
        /\ connect_attempts' = [connect_attempts EXCEPT ![n] = 0]
    /\ UNCHANGED <<mgr_vars, request_rx, dialer_rx, dialer_rx_open, published, publish_failed, notified,
                   shutdown, hist_vars, submitted, request_log, emitted, dialer_started>>
    /\ UNCHANGED <<task_vars, ext_vars>>

\* The Dialer task ends on the shutdown signal: its receiver, the requests
\* queued in it and the dials in flight are dropped.
DialerStop ==
    /\ DialerRunning
    /\ shutdown
    /\ dialer_rx_open' = FALSE
    /\ replies' = DropSenders(replies,
            ReplyTokens(dialer_rx) \cup UNION {JoinedReplies(n) : n \in NodeIds})
    /\ dialer_rx' = <<>>
    /\ pending_dials' = [n \in NodeIds |-> None]
    /\ connect_attempts' = [n \in NodeIds |-> 0]
    /\ UNCHANGED <<mgr_vars, request_rx, internal_event_rx, published, publish_failed, notified, shutdown,
                   hist_vars, submitted, request_log, emitted, dialer_started>>
    /\ UNCHANGED <<task_vars, ext_vars>>

\* ------------------------------------- the dial task, one step at a time

\* MayRetry allowing one attempt more than max_dial_attempts.
MayRetry_OneMore(attempts) == attempts <= max_dial_attempts

\* A dial whose connect attempt failed makes another one until it has made
\* max_dial_attempts of them.
MayRetry(attempts) == attempts < max_dial_attempts

\* PublishesAt with the connection reported as soon as the transport connects.
PublishesAt_Connect(stage) == stage = "connect"

\* The stage whose success makes the PeerConnection and reports PeerConnected:
\* protocol identification, which follows the handshake.
PublishesAt(stage) == stage = "identify"

\* The stage that follows a stage's success.
NextStage(stage) == IF stage = "connect" THEN "handshake" ELSE "identify"

\* The dial error of a failure at a stage.
StageError(stage) ==
    IF stage = "connect" THEN "ConnectFailed"
    ELSE IF stage = "handshake" THEN "HandshakeFailed" ELSE "IdentityFailed"

\* The Dialer takes Dial(peer, reply) with no dial to the peer in flight: a
\* dial task is spawned and makes its first connect attempt.
DialTaskStart ==
    /\ DialerRunning
    /\ dialer_rx # <<>>
    /\ LET req == Head(dialer_rx) IN
       /\ req.type = "Dial"
       /\ pending_dials[req.node_id] = None
       /\ pending_dials' = [pending_dials EXCEPT ![req.node_id] = Some({req.reply})]
       /\ connect_attempts' = [connect_attempts EXCEPT ![req.node_id] = 1]
       /\ dial_stage' = [dial_stage EXCEPT ![req.node_id] = "connect"]
       /\ dial_attempts' = [dial_attempts EXCEPT ![req.node_id] = 1]
    /\ dialer_rx' = Tail(dialer_rx)
    /\ UNCHANGED <<mgr_vars, request_rx, internal_event_rx, dialer_rx_open, published,
                   publish_failed, notified, replies, shutdown, hist_vars, submitted,
                   request_log, emitted, dialer_started, inbound_arrived, inbound_waiting,
                   inbound_handshakes, inbound_identifying, inbound_finished>>
    /\ UNCHANGED ext_vars

\* The dial to n ends: the event is reported, every reply that waits for the
\* dial gets the result.
DialTaskEnd(n, event, result) ==
    /\ EventChannelRoom
    /\ internal_event_rx' = Append(internal_event_rx, event)
    /\ replies' = Resolve(replies, pending_dials[n][1], result)
    /\ pending_dials' = [pending_dials EXCEPT ![n] = None]
    /\ connect_attempts' = [connect_attempts EXCEPT ![n] = 0]
    /\ UNCHANGED <<dial_stage, dial_attempts>>

\* The stage a dial task is in resolves.  Success moves the dial to the next
\* stage, and ends it in a PeerConnection after the last.  A failed connect
\* attempt is followed by another while the dial may retry; any other failure
\* ends the dial in PeerConnectFailed.
DialTaskStep ==
    /\ DialerRunning
    /\ \E n \in NodeIds, ok \in BOOLEAN :
        LET stage == dial_stage[n] IN
        /\ pending_dials[n] # None
        /\ IF ok
           THEN IF PublishesAt(stage)
                THEN DialTaskEnd(n, PeerConnected(n), Reply("dialer", "Ok", "", "", None))
                ELSE /\ dial_stage' = [dial_stage EXCEPT ![n] = NextStage(stage)]
                     /\ UNCHANGED <<internal_event_rx, replies, pending_dials,
                                    connect_attempts, dial_attempts>>
           ELSE IF stage = "connect" /\ MayRetry(dial_attempts[n])
                THEN /\ dial_attempts' = [dial_attempts EXCEPT ![n] = @ + 1]
                     /\ UNCHANGED <<internal_event_rx, replies, pending_dials,
                                    connect_attempts, dial_stage>>
                ELSE DialTaskEnd(n, PeerConnectFailed(n),
                                 Reply("dialer", "Err", StageError(stage), "", None))
    /\ UNCHANGED <<mgr_vars, request_rx, dialer_rx, dialer_rx_open, published, publish_failed,
                   notified, shutdown, hist_vars, submitted, request_log, emitted,
                   dialer_started, inbound_arrived, inbound_waiting, inbound_handshakes,
                   inbound_identifying, inbound_finished>>
    /\ UNCHANGED ext_vars

\* ------------------------------ the inbound connections, one step at a time

\* The inbound connections that hold a handshake slot: their task runs and has
\* not yet ended in a PeerConnection or a failure.
InboundInProgress == inbound_handshakes + inbound_identifying

\* The inbound connections that were dropped for want of a slot.
InboundDropped ==
    inbound_arrived - inbound_waiting - InboundInProgress - inbound_finished

\* HasFreeSlot with one slot more than the configuration gives.
HasFreeSlot_OneMore(in_progress) == in_progress <= max_simultaneous_inbound_connects

\* max_simultaneous_inbound_connects: "The maximum number of connection tasks
\* that will be spawned at the same time."
HasFreeSlot(in_progress) == in_progress < max_simultaneous_inbound_connects

\* AtLimit dropping the connection.
AtLimit_Drop(waiting) == waiting

\* A connection that finds no free slot: "Once this limit is reached, peers
\* attempting to connect will have to wait for another connection attempt to
\* complete."
AtLimit(waiting) == waiting + 1

\* A connection arrives at a bound listener: its task is spawned if a slot is
\* free (and nobody waits for one).
InboundArrive ==
    /\ pc = "loop"
    /\ inbound_arrived < MaxInbound
    /\ inbound_arrived' = inbound_arrived + 1
    /\ IF HasFreeSlot(InboundInProgress) /\ inbound_waiting = 0
       THEN /\ inbound_handshakes' = inbound_handshakes + 1
            /\ UNCHANGED inbound_waiting
       ELSE /\ inbound_waiting' = AtLimit(inbound_waiting)
            /\ UNCHANGED inbound_handshakes
    /\ UNCHANGED <<mgr_vars, chan_vars, hist_vars, env_vars, dial_stage, dial_attempts,
                   inbound_identifying, inbound_finished>>
    /\ UNCHANGED ext_vars

\* A slot is free: the task of a connection that waited for one is spawned.
InboundAdmit ==
    /\ pc = "loop"
    /\ inbound_waiting > 0
    /\ HasFreeSlot(InboundInProgress)
    /\ inbound_waiting' = inbound_waiting - 1
    /\ inbound_handshakes' = inbound_handshakes + 1
    /\ UNCHANGED <<mgr_vars, chan_vars, hist_vars, env_vars, dial_stage, dial_attempts,
                   inbound_arrived, inbound_identifying, inbound_finished>>
    /\ UNCHANGED ext_vars

\* An inbound handshake resolves: the connection goes on to protocol
\* identification, or (a failure, or no first byte within time_to_first_byte)
\* it is dropped and PeerInboundConnectFailed is reported.
InboundHandshake ==
    /\ pc = "loop"
    /\ inbound_handshakes > 0
    /\ inbound_handshakes' = inbound_handshakes - 1
    /\ \E ok \in BOOLEAN :
        IF ok
        THEN /\ inbound_identifying' = inbound_identifying + 1
             /\ UNCHANGED <<internal_event_rx, inbound_finished>>
        ELSE /\ EventChannelRoom
             /\ internal_event_rx' = Append(internal_event_rx, PeerInboundConnectFailed)
             /\ inbound_finished' = inbound_finished + 1
             /\ UNCHANGED inbound_identifying
    /\ UNCHANGED <<mgr_vars, request_rx, dialer_rx, dialer_rx_open, published, publish_failed,
                   notified, replies, shutdown, hist_vars, env_vars, dial_stage,
                   dial_attempts, inbound_arrived, inbound_waiting>>
    /\ UNCHANGED ext_vars

\* An inbound protocol identification resolves: PeerConnected is reported with
\* the NodeId of the revealed public key, or PeerInboundConnectFailed.
InboundIdentify ==
    /\ pc = "loop"
    /\ inbound_identifying > 0
    /\ EventChannelRoom
    /\ inbound_identifying' = inbound_identifying - 1
    /\ inbound_finished' = inbound_finished + 1
    /\ \E event \in {PeerConnected("n2"), PeerInboundConnectFailed} :
          internal_event_rx' = Append(internal_event_rx, event)
    /\ UNCHANGED <<mgr_vars, request_rx, dialer_rx, dialer_rx_open, published, publish_failed,
                   notified, replies, shutdown, hist_vars, env_vars, dial_stage,
                   dial_attempts, inbound_arrived, inbound_waiting, inbound_handshakes>>
    /\ UNCHANGED ext_vars

\* ------------------------------------------------------ the specification

Manager == BindPrimary \/ BindAux \/ handle_request \/ send_dialer_request
              \/ cancel_dial_send \/ handle_event \/ run_shutdown
Dialer == DialerStartDial \/ DialerJoinDial \/ DialerRejectDial \/ DialerCancel
              \/ DialerFinish \/ DialerStop
Next == Manager \/ Dialer \/ Submit \/ FireShutdown \/ ListenerEmit

Spec == Init /\ [][Next]_vars

\* The runs in which the shutdown signal does not fire, under the scheduling
\* the runtime gives the manager's task: a listen() that can resolve does, a
\* send to the Dialer that can complete does, and the select, which polls
\* its ready arms in random order, does not pass over a waiting request for
\* ever.  Of the Dialer only its queue is there: what it does with a request
\* reaches run() as events, which the listeners report too, and its queue
\* has room for every request of a run.
NoShutdownNext ==
    \/ BindPrimary \/ BindAux \/ handle_request \/ send_dialer_request
    \/ cancel_dial_send \/ handle_event
    \/ Submit \/ ListenerEmit

LiveSpec ==
    /\ Init
    /\ [][NoShutdownNext]_vars
    /\ WF_vars(BindPrimary)
    /\ WF_vars(BindAux)
    /\ WF_vars(handle_request)
    /\ WF_vars(send_dialer_request)
    /\ WF_vars(cancel_dial_send)

\* The manager with the requesters, the listeners and the shutdown signal,
\* and of the Dialer only its end: what the Dialer does with a request does not
\* reach run() but as events, which the listeners report too.
ShutdownNext ==
    \/ BindPrimary \/ BindAux \/ handle_request \/ send_dialer_request
    \/ cancel_dial_send \/ handle_event \/ run_shutdown
    \/ Submit \/ FireShutdown \/ ListenerEmit \/ DialerStop

\* Those runs under the scheduling the runtime gives the manager's task: a
\* send to the Dialer that can complete does, and the select does not pass
\* over a fired shutdown signal for ever.
ShutdownSpec ==
    /\ Init
    /\ [][ShutdownNext]_vars
    /\ WF_vars(send_dialer_request)
    /\ WF_vars(cancel_dial_send)
    /\ WF_vars(run_shutdown)

\* run() in its loop with nothing yet submitted: the primary listener is
\* bound, no auxiliary listener is configured, the Dialer is spawned.
TaskInit ==
    /\ pc = "loop"
    /\ listener = FALSE
    /\ aux_listener = FALSE
    /\ dialer = FALSE
    /\ shutdown_signal = FALSE
    /\ \E addr \in PrimaryAddrs :
          /\ run_listener_info = ListenerInfo(addr, None)
          /\ listener_info = Some(run_listener_info)
    /\ listening_notifiers = <<>>
    /\ protocols = {"p_reg"}
    /\ sending = None
    /\ request_rx = <<>>
    /\ internal_event_rx = <<>>
    /\ dialer_rx = <<>>
    /\ dialer_rx_open = TRUE
    /\ published = <<>>
    /\ publish_failed = FALSE
    /\ notified = <<>>
    /\ replies = [t \in Tokens |-> NoReply]
    /\ shutdown = FALSE
    /\ primary_bind = "ok"
    /\ aux_bind = "none"
    /\ handled_requests = 0
    /\ handled_events = 0
    /\ dialer_forwarded = <<>>
    /\ lookup = [t \in Tokens |-> "none"]
    /\ early = {}
    /\ submitted = 0
    /\ request_log = <<>>
    /\ emitted = 0
    /\ dialer_started = TRUE
    /\ pending_dials = [n \in NodeIds |-> None]
    /\ connect_attempts = [n \in NodeIds |-> 0]
    /\ dial_stage = [n \in NodeIds |-> "none"]
    /\ dial_attempts = [n \in NodeIds |-> 0]
    /\ inbound_arrived = 0
    /\ inbound_waiting = 0
    /\ inbound_handshakes = 0
    /\ inbound_identifying = 0
    /\ inbound_finished = 0
    /\ ExtInit

\* The manager's loop and the Dialer, with the dial tasks taken one step at
\* a time.
DialNext ==
    \/ Submit \/ handle_request \/ send_dialer_request \/ cancel_dial_send \/ handle_event
    \/ DialTaskStart \/ DialTaskStep \/ DialerJoinDial \/ DialerRejectDial \/ DialerCancel

DialSpec == TaskInit /\ [][DialNext]_vars

\* A requester that submits one request.
SubmitOnce == submitted = 0 /\ Submit

\* The manager's loop with one request, the Dialer's dial task and the
\* listener's inbound connection tasks, all taken one step at a time.
ConnectNext ==
    \/ SubmitOnce \/ handle_request \/ send_dialer_request \/ cancel_dial_send
    \/ handle_event \/ DialTaskStart \/ DialTaskStep \/ DialerCancel
    \/ InboundArrive \/ InboundAdmit \/ InboundHandshake \/ InboundIdentify

ConnectSpec == TaskInit /\ [][ConnectNext]_vars

\* ------------------------- the base node's inbound handlers, await by await

\* What a step of the inbound handlers leaves alone.
not_node_vars == <<conn_vars, wallet_vars, fetch_vars, validator_vars, monitor_vars,
    requester_vars, clone_vars>>

\* AsyncBlockchainDb::block_exists answering that no block is stored.
BlockStored_Never(block_hash) == FALSE

\* AsyncBlockchainDb::block_exists: the block is on the chain or in the orphan
\* pool.
BlockStored(block_hash) == block_hash \in blocks \cup orphans

\* Semaphore::acquire resolving whether or not a permit is left.
acquire_ready_Always(permits) == TRUE

\* Semaphore::acquire resolves when the semaphore has a permit left.
acquire_ready(permits) == permits > 0

\* handle_block's should_propagate.
should_propagate(block_add_result) == block_add_result \in {"Ok", "ChainReorg"}

\* handle_block's exclude_peers: source_peer.into_iter().collect().
exclude_peers(source_peer) == Range(source_peer)

\* What add_block can answer for a block: a stored block is reported as
\* existing, another is added to the chain (with or without a reorg) or to the
\* orphan pool; validation or the storage can fail for either.
AddBlockResults(block_hash) ==
    (IF BlockStored(block_hash) THEN {"BlockExists"} ELSE {"Ok", "ChainReorg", "OrphanBlock"})
        \cup {"Err"}

\* Task t's call goes on to its next await.
GoOn(t, at, trace) ==
    /\ nb_pc' = [nb_pc EXCEPT ![t] = at]
    /\ nb_trace' = [nb_trace EXCEPT ![t] = trace]
    /\ UNCHANGED <<new_block_request_semaphore, nb_permit>>

\* Task t's call returns: `_permit`, if the call holds one, is dropped, which
\* gives the permit back to the semaphore.
Return(t, trace, result) ==
    /\ nb_pc' = [nb_pc EXCEPT ![t] = "idle"]
    /\ nb_trace' = [nb_trace EXCEPT ![t] = [trace EXCEPT !.result = result]]
    /\ new_block_request_semaphore' =
            IF nb_permit[t] THEN new_block_request_semaphore + 1
            ELSE new_block_request_semaphore
    /\ nb_permit' = [nb_permit EXCEPT ![t] = FALSE]

\* A task calls handle_new_block_message with a NewBlock from its peer, up to
\* the acquire().await.  handle_block is later called with true.into() and
\* Some(source_peer).
handle_new_block_message ==
    /\ \E t \in NewBlockTasks, block_hash \in BlockHashes :
        /\ nb_pc[t] = "idle"
        /\ nb_calls[t] < MaxCalls
        /\ nb_calls' = [nb_calls EXCEPT ![t] = @ + 1]
        /\ nb_args' = [nb_args EXCEPT ![t] =
                [op |-> "handle_new_block_message", block_hash |-> block_hash,
                 broadcast |-> TRUE, source_peer |-> Some(SourcePeer(t))]]
        /\ GoOn(t, "acquire", NoTrace)
    /\ UNCHANGED <<blocks, orphans, fetched, late_requests>>
    /\ UNCHANGED not_node_vars

\* new_block_request_semaphore.acquire().await resolves: the call holds
\* `_permit` from here to its return.
acquire ==
    /\ \E t \in NodeTasks :
        /\ nb_pc[t] = "acquire"
        /\ acquire_ready(new_block_request_semaphore)
        /\ new_block_request_semaphore' = new_block_request_semaphore - 1
        /\ nb_permit' = [nb_permit EXCEPT ![t] = TRUE]
        /\ nb_pc' = [nb_pc EXCEPT ![t] = "block_exists"]
    /\ UNCHANGED <<nb_args, nb_trace, nb_calls, blocks, orphans, fetched, late_requests>>
    /\ UNCHANGED not_node_vars

\* blockchain_db.block_exists(..).await? resolves: an error returns, a stored
\* block returns Ok(()), an unknown one is requested from the source peer.
block_exists ==
    /\ \E t \in NodeTasks, ok \in BOOLEAN :
        LET block_hash == nb_args[t].block_hash
            after == [nb_trace[t] EXCEPT !.after_fetch = block_hash \in fetched] IN
        /\ nb_pc[t] = "block_exists"
        /\ IF ~ok
           THEN /\ Return(t, [after EXCEPT !.exists = "Err"], "Err")
                /\ UNCHANGED late_requests
           ELSE IF BlockStored(block_hash)
           THEN /\ Return(t, [after EXCEPT !.exists = "true"], "Ok")
                /\ UNCHANGED late_requests
           ELSE /\ GoOn(t, "request_blocks_with_hashes_from_peer",
                        [after EXCEPT !.exists = "false", !.requested = TRUE])
                /\ late_requests' =
                        IF block_hash \in fetched
                        THEN late_requests \cup {<<t, block_hash>>} ELSE late_requests
    /\ UNCHANGED <<nb_args, nb_calls, blocks, orphans, fetched>>
    /\ UNCHANGED not_node_vars

\* outbound_nci.request_blocks_with_hashes_from_peer(..).await? resolves: an
\* error, an empty answer (InvalidPeerResponse), a block that try_into_block
\* refuses, or the block, which handle_block takes up to its add_block await.
request_blocks_with_hashes_from_peer ==
    /\ \E t \in NodeTasks, answer \in {"Err", "empty", "invalid", "block"} :
        /\ nb_pc[t] = "request_blocks_with_hashes_from_peer"
        /\ IF answer = "block"
           THEN GoOn(t, "add_block", nb_trace[t])
           ELSE Return(t, nb_trace[t], "Err")
    /\ UNCHANGED <<nb_args, nb_calls, blocks, orphans, fetched, late_requests>>
    /\ UNCHANGED not_node_vars

\* A task calls handle_block itself (a block from the local services, or one
\* a peer sent in full), up to the add_block await.
handle_block ==
    /\ \E t \in BlockTasks, block_hash \in BlockHashes, broadcast \in BOOLEAN :
       \E source_peer \in {None, Some(SourcePeer(t))} :
        /\ nb_pc[t] = "idle"
        /\ nb_calls[t] < MaxCalls
        /\ nb_calls' = [nb_calls EXCEPT ![t] = @ + 1]
        /\ nb_args' = [nb_args EXCEPT ![t] =
                [op |-> "handle_block", block_hash |-> block_hash,
                 broadcast |-> broadcast, source_peer |-> source_peer]]
        /\ GoOn(t, "add_block", NoTrace)
    /\ UNCHANGED <<blocks, orphans, fetched, late_requests>>
    /\ UNCHANGED not_node_vars

\* blockchain_db.add_block(..).await resolves.  On Err the AddBlockFailed event
\* is published and handle_block returns the error; on Ok handle_block goes on
\* to cleanup_orphans.
add_block ==
    /\ \E t \in NodeTasks :
        LET block_hash == nb_args[t].block_hash IN
        /\ nb_pc[t] = "add_block"
        /\ \E result \in AddBlockResults(block_hash) :
            /\ blocks' = IF should_propagate(result) THEN blocks \cup {block_hash} ELSE blocks
            /\ orphans' = IF result = "OrphanBlock" THEN orphans \cup {block_hash} ELSE orphans
            /\ fetched' = IF nb_args[t].op = "handle_new_block_message" /\ should_propagate(result)
                          THEN fetched \cup {block_hash} ELSE fetched
            /\ IF result = "Err"
               THEN Return(t, [nb_trace[t] EXCEPT !.add_block = result,
                                                  !.events = Append(@, "AddBlockFailed")], "Err")
               ELSE GoOn(t, "cleanup_orphans", [nb_trace[t] EXCEPT !.add_block = result])
    /\ UNCHANGED <<nb_args, nb_calls, late_requests>>
    /\ UNCHANGED not_node_vars

\* blockchain_db.cleanup_orphans().await? resolves.  An error returns from
\* handle_block.  Otherwise the ValidBlockAdded event is published, and the
\* block is propagated when should_propagate && broadcast.is_true(), up to the
\* propagate_block await.
cleanup_orphans ==
    /\ \E t \in NodeTasks, ok \in BOOLEAN, evicted \in SUBSET orphans :
        LET args == nb_args[t]
            trace == nb_trace[t] IN
        /\ nb_pc[t] = "cleanup_orphans"
        /\ IF ~ok
           THEN /\ evicted = {}
                /\ Return(t, [trace EXCEPT !.cleanup = "Err"], "Err")
           ELSE LET published_ == [trace EXCEPT !.cleanup = "Ok",
                                                !.events = Append(@, "ValidBlockAdded")] IN
                IF should_propagate(trace.add_block) /\ args.broadcast
                THEN GoOn(t, "propagate_block",
                          [published_ EXCEPT !.propagated =
                                Some([block_hash |-> args.block_hash,
                                      exclude_peers |-> exclude_peers(args.source_peer)])])
                ELSE Return(t, published_, "Ok")
        /\ orphans' = orphans \ evicted
    /\ UNCHANGED <<nb_args, nb_calls, blocks, fetched, late_requests>>
    /\ UNCHANGED not_node_vars

\* outbound_nci.propagate_block(..).await? resolves and handle_block returns.
propagate_block ==
    /\ \E t \in NodeTasks, ok \in BOOLEAN :
        /\ nb_pc[t] = "propagate_block"
        /\ Return(t, nb_trace[t], IF ok THEN "Ok" ELSE "Err")
    /\ UNCHANGED <<nb_args, nb_calls, blocks, orphans, fetched, late_requests>>
    /\ UNCHANGED not_node_vars

NodeNext ==
    \/ handle_new_block_message \/ acquire \/ block_exists
    \/ request_blocks_with_hashes_from_peer \/ handle_block \/ add_block
    \/ cleanup_orphans \/ propagate_block

\* The inbound handlers in tasks of their own, the connection manager as
\* constructed.
NodeSpecInit == ConnInit /\ ~aux_listener /\ ExtInit

NodeSpec == NodeSpecInit /\ [][NodeNext]_vars

\* ------------------------------------------------ the wallet's AppState

\* What a call on the AppState leaves alone.
not_wallet_vars == <<conn_vars, node_vars, fetch_vars, validator_vars, monitor_vars,
    requester_vars, clone_vars>>

\* Iterator::position: the first index whose transaction has the id.
position(txs, tx_id) ==
    LET hits == {i \in DOMAIN txs : txs[i].tx_id = tx_id} IN
    IF hits = {} THEN None ELSE Some(CHOOSE i \in hits : \A j \in hits : i <= j)

\* Vec::remove(index) of an index in bounds (indices from 1 here).
remove(txs, index) == SubSeq(txs, 1, index - 1) \o SubSeq(txs, index + 1, Len(txs))

\* Vec::remove(index) panics on an index out of bounds.
remove_panics(txs, index) == index > Len(txs)

\* sort_by(|a, b| b.timestamp.partial_cmp(&a.timestamp)): a stable sort, latest
\* first.
RECURSIVE sort_by_timestamp(_)
sort_by_timestamp(txs) ==
    IF txs = <<>> THEN <<>>
    ELSE LET n == Len(txs)
             front == sort_by_timestamp(SubSeq(txs, 1, n - 1))
             k == Cardinality({i \in DOMAIN front : timestamp(front[i]) >= timestamp(txs[n])})
         IN SubSeq(front, 1, k) \o <<txs[n]>> \o SubSeq(front, k + 1, Len(front))

\* What a call leaves of the AppStateInner and what it returns.
Outcome(d, upd, result) == [data |-> d, updated |-> upd, result |-> result]

\* refresh_balance on data d: get_balance answered `balance` (None: an error).
refresh_balance_on(d, upd, balance) ==
    IF balance = None THEN Outcome(d, upd, "Err")
    ELSE Outcome([d EXCEPT !.balance = balance[1]], TRUE, "Ok")

\* refresh_single_transaction_state's None arm, up to refresh_balance: the
\* transaction is looked up in pending_txs and removed there, then looked up
\* in completed_txs, and the index found there is removed from pending_txs.
remove_not_found(d, tx_id) ==
    LET in_pending == position(d.pending_txs, tx_id)
        pending == IF in_pending = None THEN d.pending_txs
                   ELSE remove(d.pending_txs, in_pending[1])
        in_completed == position(d.completed_txs, tx_id)
    IN IF in_completed = None
       THEN [data |-> [d EXCEPT !.pending_txs = pending], panicked |-> FALSE]
       ELSE IF remove_panics(pending, in_completed[1])
       THEN [data |-> [d EXCEPT !.pending_txs = pending], panicked |-> TRUE]
       ELSE [data |-> [d EXCEPT !.pending_txs = remove(pending, in_completed[1])],
             panicked |-> FALSE]

\* refresh_single_transaction_state once get_any_transaction has answered
\* Ok(found); `balance` is what the get_balance of its refresh_balance answers.
refresh_single_transaction_state_on(d, upd, tx_id, found, balance) ==
    IF found = None
    THEN LET r == remove_not_found(d, tx_id) IN
         IF r.panicked THEN Outcome(r.data, upd, "panic")
         ELSE refresh_balance_on(r.data, upd, balance)
    ELSE LET tx == found[1]
             is_pending == tx.status = "Pending" /\ ~tx.cancelled
             in_pending == position(d.pending_txs, tx_id)
         IN IF in_pending # None /\ is_pending
            THEN Outcome([d EXCEPT !.pending_txs[in_pending[1]] = tx], TRUE, "Ok")
            ELSE IF in_pending = None /\ is_pending
            THEN Outcome([d EXCEPT !.pending_txs = sort_by_timestamp(Append(@, tx))],
                         TRUE, "Ok")
            ELSE LET pending == IF in_pending = None THEN d.pending_txs
                                ELSE remove(d.pending_txs, in_pending[1])
                     in_completed == position(d.completed_txs, tx_id)
                     completed == IF in_completed = None THEN Append(d.completed_txs, tx)
                                  ELSE [d.completed_txs EXCEPT ![in_completed[1]] = tx]
                 IN refresh_balance_on(
                        [d EXCEPT !.pending_txs = pending,
                                  !.completed_txs = sort_by_timestamp(completed)],
                        upd, balance)

\* A call that may assign to the data returns: the AppStateInner is as the
\* call left it.
WalletCall(op, tx_id, found, out) ==
    /\ wallet_calls < MaxWalletCalls
    /\ last_call.result # "panic"
    /\ wallet_calls' = wallet_calls + 1
    /\ last_call' = [op |-> op, tx_id |-> tx_id, found |-> found, result |-> out.result]
    /\ data' = out.data
    /\ updated' = out.updated
    /\ written' = (written \/ out.updated \/ out.data # data)
    /\ UNCHANGED cached_data
    /\ UNCHANGED not_wallet_vars

\* AppStateInner::refresh_single_transaction_state(tx_id), with every answer
\* of get_any_transaction and get_balance.
refresh_single_transaction_state ==
    \E tx_id \in TxIds :
        \/ WalletCall("refresh_single_transaction_state", tx_id, None,
                      Outcome(data, updated, "Err"))
        \/ \E found \in {None} \cup {Some(tx) : tx \in BackendTransactions(tx_id)},
              balance \in {None} \cup {Some(b) : b \in Balances} :
                WalletCall("refresh_single_transaction_state", tx_id, Some(found),
                    refresh_single_transaction_state_on(data, updated, tx_id, found, balance))

\* AppStateInner::refresh_single_confirmation_state(tx_id, confirmations)
refresh_single_confirmation_state ==
    \E tx_id \in TxIds, confirmations \in ConfirmationCounts :
        WalletCall("refresh_single_confirmation_state", tx_id, None,
            Outcome([data EXCEPT !.confirmations[tx_id] = Some(confirmations)], updated, "Ok"))

\* AppStateInner::cleanup_single_confirmation_state(tx_id)
cleanup_single_confirmation_state ==
    \E tx_id \in TxIds :
        WalletCall("cleanup_single_confirmation_state", tx_id, None,
            Outcome([data EXCEPT !.confirmations[tx_id] = None], updated, "Ok"))

\* AppStateInner::refresh_balance
refresh_balance ==
    \E balance \in {None} \cup {Some(b) : b \in Balances} :
        WalletCall("refresh_balance", 0, None, refresh_balance_on(data, updated, balance))

\* AppStateInner::get_updated_app_state: Some(self.data.clone()) when updated
\* is set, which it clears; None otherwise.
get_updated_app_state(d, upd) ==
    IF upd THEN [updated |-> FALSE, snapshot |-> Some(d)]
    ELSE [updated |-> upd, snapshot |-> None]

\* AppState::update_cache: the snapshot, if one is returned, becomes the cache.
update_cache ==
    LET got == get_updated_app_state(data, updated) IN
    /\ wallet_calls < MaxWalletCalls
    /\ last_call.result # "panic"
    /\ wallet_calls' = wallet_calls + 1
    /\ last_call' = [op |-> "update_cache", tx_id |-> 0, found |-> None,
                     result |-> IF got.snapshot = None THEN "None" ELSE "Some"]
    /\ updated' = got.updated
    /\ cached_data' = IF got.snapshot = None THEN cached_data ELSE got.snapshot[1]
    /\ written' = FALSE
    /\ UNCHANGED data
    /\ UNCHANGED not_wallet_vars

WalletNext ==
    \/ refresh_single_transaction_state \/ refresh_single_confirmation_state
    \/ cleanup_single_confirmation_state \/ refresh_balance \/ update_cache

WalletSpecInit == ConnInit /\ ~aux_listener /\ ExtInit

\* The calls of the wallet's event monitor and of its UI on one AppState.
WalletSpec == WalletSpecInit /\ [][WalletNext]_vars

\* ------------------------- the base node's FetchMatchingBlocks, await by await

\* What a step of the FetchMatchingBlocks handler leaves alone.
not_fetch_vars == <<conn_vars, node_vars, wallet_vars, validator_vars, monitor_vars,
    requester_vars, clone_vars>>

\* The block heights a peer can ask for; one of them is beyond MaxHeight.
Heights == 0 .. MaxHeight + 1

\* The lists of at most n elements of S.
SeqsUpTo(S, n) == UNION {[1 .. k -> S] : k \in 0 .. n}

\* The HistoricalBlock fetch_block returns for a height.
HistoricalBlock(block_num) == [height |-> block_num]

\* What blockchain_db.fetch_block(block_num) can answer: an error for a
\* height the db has no block at, the block or a backend error otherwise.
fetch_block_answers(block_num) ==
    IF block_num <= chain_tip THEN {"Ok", "Err"} ELSE {"Err"}

\* A response that leaves the blocks out.
HistoricalBlocks_Empty(fetched_blocks) == [result |-> "Ok", blocks |-> <<>>]

\* Ok(NodeCommsResponse::HistoricalBlocks(blocks))
HistoricalBlocks(fetched_blocks) == [result |-> "Ok", blocks |-> fetched_blocks]

\* Another task adds the next block to the chain.
ChainGrows ==
    /\ chain_tip < MaxHeight
    /\ chain_tip' = chain_tip + 1
    /\ UNCHANGED <<fetch_pc, block_nums, block_i, historical_blocks, fetch_results,
                   fetch_response>>
    /\ UNCHANGED not_fetch_vars

\* handle_request(NodeCommsRequest::FetchMatchingBlocks(block_nums)) up to
\* the first fetch_block await, or to its return for an empty list.
FetchMatchingBlocks ==
    /\ fetch_pc = "idle"
    /\ \E nums \in SeqsUpTo(Heights, MaxBlockNums) :
          /\ block_nums' = nums
          /\ block_i' = 1
          /\ historical_blocks' = <<>>
          /\ fetch_results' = <<>>
          /\ IF nums = <<>>
                THEN /\ fetch_pc' = "returned"
                     /\ fetch_response' = Some(HistoricalBlocks(<<>>))
                ELSE /\ fetch_pc' = "fetch_block"
                     /\ fetch_response' = None
    /\ UNCHANGED chain_tip
    /\ UNCHANGED not_fetch_vars

\* fetch_block(block_num).await answers: one pass of the loop (Ok pushes the
\* block, Err is only logged), and the return of the response after the last
\* pass.
fetch_block ==
    /\ fetch_pc = "fetch_block"
    /\ \E answer \in fetch_block_answers(block_nums[block_i]) :
          LET pushed == IF answer = "Ok"
                           THEN Append(historical_blocks,
                                       HistoricalBlock(block_nums[block_i]))
                           ELSE historical_blocks
          IN  /\ fetch_results' = Append(fetch_results, answer)
              /\ block_i' = block_i + 1
              /\ historical_blocks' = pushed
              /\ IF block_i = Len(block_nums)
                    THEN /\ fetch_pc' = "returned"
                         /\ fetch_response' = Some(HistoricalBlocks(pushed))
                    ELSE /\ fetch_pc' = "fetch_block"
                         /\ fetch_response' = None
    /\ UNCHANGED <<chain_tip, block_nums>>
    /\ UNCHANGED not_fetch_vars

FetchNext == ChainGrows \/ FetchMatchingBlocks \/ fetch_block

FetchSpecInit == ConnInit /\ ~aux_listener /\ ExtInit

\* A FetchMatchingBlocks request handled while the chain grows.
FetchSpec == FetchSpecInit /\ [][FetchNext]_vars

\* ------------------------------------------------ the mempool's validator

\* What a validate call leaves alone.
not_validator_vars == <<conn_vars, node_vars, wallet_vars, fetch_vars, monitor_vars,
    requester_vars, clone_vars>>

Transactions == {"tx1", "tx2"}

\* What a validator's validate can return: Ok(()) or a ValidationError.
Verdicts == {"Ok", "UnknownInputs", "MaturityError"}

\* A MempoolTransactionValidation, by what its validate returns for each
\* transaction.
MempoolTransactionValidations == [Transactions -> Verdicts]

\* Result::is_err never holding: `?` never returns.
is_err_Never(verdict) == FALSE

\* Result::is_err, which decides whether `?` returns.
is_err(verdict) == verdict # "Ok"

\* The loop of MempoolValidator::validate from position i on, after the
\* validators at the positions in `done` have run.
RECURSIVE validate_from(_, _, _, _)
validate_from(vs, tx, i, done) ==
    IF i > Len(vs)
        THEN [result |-> "Ok", ran |-> done]
        ELSE LET verdict == vs[i][tx]
             IN  IF is_err(verdict)
                    THEN [result |-> verdict, ran |-> Append(done, i)]
                    ELSE validate_from(vs, tx, i + 1, Append(done, i))

\* MempoolValidator::new(validators), once.
MempoolValidator_new ==
    /\ validators = <<>>
    /\ validate_result = "none"
    /\ validators' \in SeqsUpTo(MempoolTransactionValidations, MaxValidators)
    /\ UNCHANGED <<transaction, ran, validate_result>>
    /\ UNCHANGED not_validator_vars

\* MempoolValidator::validate(transaction)
validate ==
    \E tx \in Transactions :
        LET out == validate_from(validators, tx, 1, <<>>)
        IN  /\ transaction' = tx
            /\ ran' = out.ran
            /\ validate_result' = out.result
            /\ UNCHANGED validators
            /\ UNCHANGED not_validator_vars

ValidatorNext == MempoolValidator_new \/ validate

ValidatorSpecInit == ConnInit /\ ~aux_listener /\ ExtInit

\* validate calls on a MempoolValidator of any composition.
ValidatorSpec == ValidatorSpecInit /\ [][ValidatorNext]_vars

\* ------------------------------------- the wallet's transaction monitoring

\* What the monitoring leaves alone.
not_monitor_vars == <<conn_vars, node_vars, wallet_vars, fetch_vars, validator_vars,
    requester_vars, clone_vars>>

\* enum TransactionStage
TransactionStages ==
    {"Initiated", "DirectSendOrSaf", "Negotiated", "Broadcast", "MinedUnconfirmed",
     "Mined", "Timedout"}

\* The TransactionEvent variants monitor_transactions matches, and one of the
\* variants that fall to its `_` arm.
TransactionEvents ==
    {"TransactionDirectSendResult", "TransactionStoreForwardSendResult",
     "ReceivedTransactionReply", "TransactionBroadcast",
     "TransactionMinedUnconfirmed", "TransactionMined", "TransactionCancelled"}

\* The stage an arm compares wait_stage with and pushes.
ArmStage(event) ==
    CASE event = "TransactionDirectSendResult" -> "DirectSendOrSaf"
      [] event = "TransactionStoreForwardSendResult" -> "DirectSendOrSaf"
      [] event = "ReceivedTransactionReply" -> "Negotiated"
      [] event = "TransactionBroadcast" -> "Broadcast"
      [] event = "TransactionMinedUnconfirmed" -> "MinedUnconfirmed"
      [] event = "TransactionMined" -> "Mined"
      [] OTHER -> "none"

SentTransaction(id, stage) == [id |-> id, stage |-> stage]

\* if results.len() == tx_ids.len() { break; }
complete(pushed, ids) == Len(pushed) = Len(ids)

\* The ids command_runner can have collected from its send commands: distinct
\* and, as monitor_transactions is only called then, not empty.
SentTxIds ==
    {ids \in SeqsUpTo(TxIds, Cardinality(TxIds)) :
        /\ ids # <<>>
        /\ \A i, j \in DOMAIN ids : ids[i] = ids[j] => i = j}

\* command_runner calls timeout(duration, monitor_transactions(.., tx_ids,
\* wait_stage)): monitor_transactions up to its first await.
monitor_transactions ==
    /\ monitor_pc = "idle"
    /\ tx_ids' \in SentTxIds
    /\ wait_stage' \in TransactionStages
    /\ results' = <<>>
    /\ monitor_pc' = "next"
    /\ UNCHANGED <<monitor_exit, printed, reached>>
    /\ UNCHANGED not_monitor_vars

\* event_stream.next().await yields Some(Ok(event)): one pass of the loop,
\* and for the pass that breaks the return of `results` and command_runner's
\* Ok(txs) arm.
event_stream_next ==
    /\ monitor_pc = "next"
    /\ \E event \in TransactionEvents, id \in TxIds :
          LET matches == /\ id \in Range(tx_ids)
                         /\ ArmStage(event) = wait_stage
              pushed == IF matches
                           THEN Append(results, SentTransaction(id, ArmStage(event)))
                           ELSE results
          IN  /\ results' = pushed
              /\ reached' = IF matches THEN reached \cup {id} ELSE reached
              /\ IF matches /\ complete(pushed, tx_ids)
                    THEN /\ monitor_pc' = "done"
                         /\ monitor_exit' = "complete"
                         /\ printed' = "Done! All transactions monitored"
                    ELSE UNCHANGED <<monitor_pc, monitor_exit, printed>>
    /\ UNCHANGED <<tx_ids, wait_stage>>
    /\ UNCHANGED not_monitor_vars

\* event_stream.next().await yields Some(Err(e)) or None: the loop breaks,
\* `results` is returned as it is and command_runner takes its Ok(txs) arm.
event_stream_ends ==
    /\ monitor_pc = "next"
    /\ monitor_exit' \in {"RecvError", "None"}
    /\ monitor_pc' = "done"
    /\ printed' = "Done! All transactions monitored"
    /\ UNCHANGED <<tx_ids, wait_stage, results, reached>>
    /\ UNCHANGED not_monitor_vars

\* The timeout elapses while monitor_transactions waits for an event:
\* command_runner takes its Err arm.
monitor_timeout ==
    /\ monitor_pc = "next"
    /\ monitor_pc' = "done"
    /\ monitor_exit' = "timeout"
    /\ printed' = "The configured timeout was reached"
    /\ UNCHANGED <<tx_ids, wait_stage, results, reached>>
    /\ UNCHANGED not_monitor_vars

MonitorNext ==
    monitor_transactions \/ event_stream_next \/ event_stream_ends \/ monitor_timeout

MonitorSpecInit == ConnInit /\ ~aux_listener /\ ExtInit

\* One command_runner run that monitors the transactions it sent.
MonitorSpec == MonitorSpecInit /\ [][MonitorNext]_vars

\* --------------------------------- the two bounded channels under a storm

\* n copies of x.
Repeat(x, n) == [i \in 1 .. n |-> x]

\* run() in its loop in the middle of a storm: a dial to n1 is in flight for
\* token 1, CancelDial requests for n2 (no dial in flight, so without effect)
\* have filled the Dialer's request queue as far as it goes, and failed
\* inbound connections have filled the internal event queue.  The histories
\* hold the dial in flight and start here for the rest.
StormInit ==
    /\ pc = "loop"
    /\ listener = FALSE
    /\ aux_listener = FALSE
    /\ dialer = FALSE
    /\ shutdown_signal = FALSE
    /\ \E addr \in PrimaryAddrs :
          /\ run_listener_info = ListenerInfo(addr, None)
          /\ listener_info = Some(run_listener_info)
    /\ listening_notifiers = <<>>
    /\ protocols = {"p_reg"}
    /\ sending = None
    /\ request_rx = <<>>
    /\ internal_event_rx = Repeat(PeerInboundConnectFailed, EVENT_CHANNEL_SIZE)
    /\ dialer_rx = Repeat(CancelPendingDial("n2"), DIALER_REQUEST_CHANNEL_SIZE + 1)
    /\ dialer_rx_open = TRUE
    /\ published = <<>>
    /\ publish_failed = FALSE
    /\ notified = <<>>
    /\ replies = [t \in Tokens |-> NoReply]
    /\ shutdown = FALSE
    /\ primary_bind = "ok"
    /\ aux_bind = "none"
    /\ handled_requests = 1
    /\ handled_events = 0
    /\ dialer_forwarded = <<Dial("n1", 1)>>
    /\ lookup = [t \in Tokens |-> IF t = 1 THEN "ok" ELSE "none"]
    /\ early = {}
    /\ submitted = 1
    /\ request_log = <<DialPeer("n1", 1)>>
    /\ emitted = 0
    /\ dialer_started = TRUE
    /\ pending_dials = [n \in NodeIds |-> IF n = "n1" THEN Some({1}) ELSE None]
    /\ connect_attempts = [n \in NodeIds |-> IF n = "n1" THEN 1 ELSE 0]
    /\ dial_stage = [n \in NodeIds |-> "none"]
    /\ dial_attempts = [n \in NodeIds |-> 0]
    /\ inbound_arrived = 0
    /\ inbound_waiting = 0
    /\ inbound_handshakes = 0
    /\ inbound_identifying = 0
    /\ inbound_finished = 0
    /\ ExtInit

\* The Dialer takes the request at the head of its queue.
DialerIntake == DialerStartDial \/ DialerJoinDial \/ DialerRejectDial \/ DialerCancel

\* The manager's loop, the Dialer and the requesters from there on, while the
\* shutdown signal does not fire and the listeners report nothing more.
StormNext ==
    \/ handle_request \/ send_dialer_request \/ cancel_dial_send \/ handle_event
    \/ DialerIntake \/ DialerFinish \/ Submit

StormSpec == StormInit /\ [][StormNext]_vars

\* ------------------------------------ the request channel being closed

\* The loop breaking when the request stream ends.
AfterRequestsEnd_Returns == "returned"

\* Where run() is after request_rx yielded None: select_next_some on the
\* Fuse does not resolve, the select goes on with its other arms.
AfterRequestsEnd == "loop"

\* A requester submits a request while there is one.
SubmitOpen == ~requesters_dropped /\ Submit

\* The last ConnectionManagerRequester is dropped: the channel is closed,
\* the requests already in it stay.
DropRequesters ==
    /\ ~requesters_dropped
    /\ requesters_dropped' = TRUE
    /\ UNCHANGED request_rx_terminated
    /\ UNCHANGED <<conn_vars, node_vars, wallet_vars, fetch_vars, validator_vars,
                   monitor_vars, clone_vars>>

\* The select polls request_rx.select_next_some() on the closed and empty
\* channel: the stream yields None and the Fuse is terminated.
request_rx_ends ==
    /\ pc = "loop"
    /\ requesters_dropped
    /\ request_rx = <<>>
    /\ ~request_rx_terminated
    /\ request_rx_terminated' = TRUE
    /\ pc' = AfterRequestsEnd
    /\ UNCHANGED requesters_dropped
    /\ UNCHANGED <<listener, aux_listener, dialer, shutdown_signal, listener_info,
                   run_listener_info, listening_notifiers, protocols, sending>>
    /\ UNCHANGED <<chan_vars, hist_vars, env_vars, task_vars>>
    /\ UNCHANGED <<node_vars, wallet_vars, fetch_vars, validator_vars, monitor_vars,
                   clone_vars>>

\* The manager's loop with requesters that go away, the listeners and the
\* shutdown signal; of the Dialer only its queue.
CloseNext ==
    \/ handle_request \/ send_dialer_request \/ cancel_dial_send \/ handle_event
    \/ run_shutdown \/ request_rx_ends
    \/ SubmitOpen \/ DropRequesters \/ ListenerEmit \/ FireShutdown

CloseSpec == TaskInit /\ [][CloseNext]_vars

\* --------------------------------------------- a clone of the AppState

\* AppState::clone (#[derive(Clone)]): the clone shares `inner` through the
\* Arc and starts with a copy of the cache.
AppState_clone ==
    /\ ~cloned
    /\ last_call.result # "panic"
    /\ cloned' = TRUE
    /\ clone_cached_data' = cached_data
    /\ UNCHANGED <<wallet_vars, conn_vars, node_vars, fetch_vars, validator_vars,
                   monitor_vars, requester_vars>>

\* AppState::update_cache called on the clone: get_updated_app_state on the
\* shared AppStateInner, the snapshot, if one is returned, becomes the clone's
\* cache.
clone_update_cache ==
    LET got == get_updated_app_state(data, updated) IN
    /\ cloned
    /\ wallet_calls < MaxWalletCalls
    /\ last_call.result # "panic"
    /\ wallet_calls' = wallet_calls + 1
    /\ last_call' = [op |-> "clone.update_cache", tx_id |-> 0, found |-> None,
                     result |-> IF got.snapshot = None THEN "None" ELSE "Some"]
    /\ updated' = got.updated
    /\ clone_cached_data' =
            IF got.snapshot = None THEN clone_cached_data ELSE got.snapshot[1]
    /\ written' = FALSE
    /\ UNCHANGED <<data, cached_data, cloned>>
    /\ UNCHANGED <<conn_vars, node_vars, fetch_vars, validator_vars, monitor_vars,
                   requester_vars>>

CloneNext ==
    refresh_balance \/ update_cache \/ AppState_clone \/ clone_update_cache

\* The balance being refreshed, which sets `updated` whenever it writes,
\* while the AppState and a clone of it update their caches.
CloneSpec == WalletSpecInit /\ [][CloneNext]_vars

\* ------------------------------------------------------------- the claims

\* The tokens answered with a ListenerInfo.
ListenerInfoReplies == {t \in Tokens : replies[t].kind = "ListenerInfo"}

\* run() has handled nothing: no request, no internal event, nothing sent to
\* the Dialer.
NothingHandled ==
    /\ handled_requests = 0
    /\ handled_events = 0
    /\ sending = None
    /\ dialer_forwarded = <<>>

\* C1: once the primary listener has failed to bind, run() has returned, it
\* has handled no request and no internal event, and the Dialer task was not
\* (and so is never) started.
C1_PrimaryBindFailureReturns ==
    primary_bind = "failed" =>
        /\ pc = "returned"
        /\ NothingHandled
        /\ ~dialer_started
        /\ dialer

\* C1's case: the primary bind failed with a request waiting in the queue,
\* which run() dropped unhandled.
C1_Witness ==
    /\ primary_bind = "failed"
    /\ submitted > 0
    /\ \E t \in Tokens : replies[t].kind = "dropped"

\* C2: the Dialer is started, and a ListenerInfo is sent, only after the
\* primary listener was bound successfully.
C2_PrimaryBoundFirst ==
    (dialer_started \/ ListenerInfoReplies # {}) =>
        /\ primary_bind = "ok"
        /\ listener_info # None
        /\ listener_info[1].bind_address \in PrimaryAddrs

\* C2's case: the Dialer runs and a NotifyListening was answered.
C2_Witness == dialer_started /\ ListenerInfoReplies # {}

\* C9: once a configured auxiliary listener has failed to bind, run() has
\* returned: the Dialer was not started, no ListenerInfo was sent and nothing
\* was handled, although the primary listener is bound.
C9_AuxBindFailureAborts ==
    aux_bind = "failed" =>
        /\ primary_bind = "ok"
        /\ pc = "returned"
        /\ ~dialer_started
        /\ ListenerInfoReplies = {}
        /\ listener_info = None
        /\ NothingHandled

\* C9's case: the auxiliary bind failed after the primary listener was bound,
\* with a NotifyListening waiting in the request queue, which run() dropped.
C9_Witness ==
    /\ aux_bind = "failed"
    /\ primary_bind = "ok"
    /\ \E t \in Tokens : replies[t].kind = "dropped"

\* The Dialer takes a Dial for a node it is already dialing.
TakesDuplicateDial(n) ==
    /\ DialerRunning
    /\ dialer_rx # <<>>
    /\ Head(dialer_rx) = Dial(n, Head(dialer_rx).reply)
    /\ pending_dials[n] # None
    /\ dialer_rx' = Tail(dialer_rx)
    /\ dialer_rx_open'

\* C3: there is never more than one transport connect attempt to a node; a
\* Dial taken while a dial to the same node is in flight starts no attempt of
\* its own: its reply joins the one in flight or is rejected as a duplicate;
\* and the replies that joined one dial all resolve to the same outcome.
C3_SingleFlightDial ==
    [][\A n \in NodeIds :
          /\ connect_attempts'[n] <= 1
          /\ (connect_attempts'[n] = 1) <=> (pending_dials'[n] # None)
          /\ TakesDuplicateDial(n) =>
                /\ connect_attempts'[n] = connect_attempts[n]
                /\ LET r == Head(dialer_rx).reply IN
                      \/ JoinedReplies(n)' = JoinedReplies(n) \cup {r}
                      \/ /\ replies'[r] = Reply("dialer", "Err", "DialDuplicate", "", None)
                         /\ pending_dials'[n] = pending_dials[n]
          /\ (pending_dials[n] # None /\ pending_dials'[n] = None) =>
                \A r1, r2 \in JoinedReplies(n) :
                    replies'[r1] = replies'[r2] /\ replies'[r1].kind # "none"]_vars

\* C3's case: DialPeer was submitted twice for one node, both were forwarded
\* to the Dialer, and both replies wait for the one connect attempt.
C3_Witness ==
    \E n \in NodeIds :
        /\ Cardinality(JoinedReplies(n)) = 2
        /\ connect_attempts[n] = 1
        /\ Len(dialer_forwarded) = 2

\* The Dial requests that carry the reply channel t, among the requests q.
DialsWith(q, t) == {i \in DOMAIN q : q[i].type = "Dial" /\ q[i].reply = t}

\* C4: a DialPeer whose directory lookup failed has the directory's error,
\* as the directory returned it, on its reply channel, sent by the manager in
\* the step that handled it, and no Dial for it is sent to the Dialer.
C4_LookupFailureReplies ==
    \A t \in Tokens :
        lookup[t] \in DirectoryErrors =>
            /\ replies[t] = Reply("manager", "Err", "PeerManagerError", lookup[t], None)
            /\ DialsWith(sending, t) = {}
            /\ DialsWith(dialer_forwarded, t) = {}
            /\ DialsWith(dialer_rx, t) = {}

\* C4's case: one lookup failed with each of the directory's errors.
C4_Witness ==
    \E t1, t2 \in Tokens :
        /\ lookup[t1] = "DatabaseError"
        /\ lookup[t2] = "PeerNotFoundError"
        /\ replies[t2].wrapped = "PeerNotFoundError"

\* C5: a DialPeer whose directory lookup succeeded is handed to the Dialer's
\* channel exactly once, as a Dial carrying its own reply channel (the send
\* is pending, or was accepted, or failed on a channel the Dialer had closed
\* and dropped the reply); the manager sends nothing on the reply channel:
\* whatever value it gets comes from the Dialer.  A Dial is sent for no other
\* reply channel.
C5_LookupSuccessForwards ==
    \A t \in Tokens :
        /\ lookup[t] = "ok" =>
              /\ replies[t].by # "manager"
              /\ Cardinality(DialsWith(sending, t)) + Cardinality(DialsWith(dialer_forwarded, t))
                    = (IF replies[t].kind = "dropped" /\ ~dialer_rx_open
                          /\ DialsWith(dialer_forwarded, t) = {}
                       THEN 0 ELSE 1)
              /\ replies[t].kind \in {"Ok", "Err"} => DialsWith(dialer_forwarded, t) # {}
        /\ lookup[t] # "ok" => DialsWith(sending, t) \cup DialsWith(dialer_forwarded, t) = {}

\* C5's case: a DialPeer was found, forwarded, and answered by the Dialer
\* with a connection.
C5_Witness ==
    \E t \in Tokens :
        /\ lookup[t] = "ok"
        /\ DialsWith(dialer_forwarded, t) # {}
        /\ replies[t] = Reply("dialer", "Ok", "", "", None)

\* The manager's own state: what handle_request and handle_event can change
\* besides the channels.
OwnState == <<listener, aux_listener, dialer, shutdown_signal, listener_info,
              listening_notifiers, protocols>>

\* handle_request takes CancelDial(n) from the request queue.
HandlesCancelDial(n) ==
    /\ pc = "loop"
    /\ request_rx # <<>>
    /\ Head(request_rx) = CancelDial(n)
    /\ request_rx' = Tail(request_rx)
    /\ handled_requests' = handled_requests + 1

\* C6: handling CancelDial(n) sends nothing on any reply channel, changes
\* nothing of the manager's own state and does not end the loop, with a dial
\* to n in flight or without: it sends one CancelPendingDial(n) to the Dialer,
\* which the Dialer's channel takes unless the Dialer has closed it (the error
\* is logged), and the manager is back in its loop.
C6_CancelDialIsFireAndForget ==
    [][/\ \A n \in DialTargets :
            HandlesCancelDial(n) =>
                /\ pc' = "cancel_dial_send"
                /\ sending' = Some(CancelPendingDial(n))
                /\ UNCHANGED <<OwnState, replies, dialer_rx, dialer_forwarded,
                               published, notified>>
       /\ (pc = "cancel_dial_send" /\ pc' # pc) =>
            /\ pc' = "loop"
            /\ sending' = None
            /\ UNCHANGED <<OwnState, replies, request_rx, published, notified>>
            /\ IF dialer_rx_open
               THEN /\ dialer_rx' = Append(dialer_rx, sending[1])
                    /\ dialer_forwarded' = Append(dialer_forwarded, sending[1])
               ELSE UNCHANGED <<dialer_rx, dialer_forwarded>>]_vars

\* C6's case: a CancelDial was handled and forwarded with no dial in flight
\* (none was ever requested), and the manager is back in its loop.
C6_Witness ==
    /\ pc = "loop"
    /\ dialer_forwarded = <<CancelPendingDial("n1")>>
    /\ handled_requests = 1
    /\ \A t \in Tokens : replies[t] = NoReply

\* C7: every ListenerInfo ever sent is the manager's listener_info, which is
\* what the listeners' listen() returned: the primary address and, with an
\* auxiliary listener bound, its address.
C7_SameListenerInfo ==
    \A t \in ListenerInfoReplies :
        /\ replies[t].info = listener_info
        /\ listener_info = Some(run_listener_info)
        /\ run_listener_info.bind_address \in PrimaryAddrs
        /\ IF aux_bind = "ok"
           THEN run_listener_info.aux_bind_address # None
                  /\ run_listener_info.aux_bind_address[1] \in AuxAddrs
           ELSE run_listener_info.aux_bind_address = None

\* C7's case: two NotifyListening requests were submitted before the
\* listeners (an auxiliary one too) were bound, and both are answered.
C7_Witness ==
    /\ early = {1, 2}
    /\ aux_bind = "ok"
    /\ ListenerInfoReplies = {1, 2}

\* handle_request takes NotifyListening(t) from the request queue.
HandlesNotifyListening(t) ==
    /\ pc = "loop"
    /\ request_rx # <<>>
    /\ Head(request_rx) = NotifyListening(t)
    /\ request_rx' = Tail(request_rx)
    /\ handled_requests' = handled_requests + 1

\* The listeners are bound: run() is past run_listeners' Ok.
ListenersBound == pc \in {"loop", "send_dialer_request", "cancel_dial_send"}

\* C8: while the shutdown signal does not fire, a NotifyListening waiting in
\* the request queue is eventually answered with the ListenerInfo, unless a
\* listener fails to bind; handled once the listeners are bound, it is
\* answered in that very step; and no notifier stays queued once the
\* listeners are bound.
C8_NotifyListeningAnswered ==
    /\ \A t \in Tokens :
          (\E i \in DOMAIN request_rx : request_rx[i] = NotifyListening(t))
             ~> \/ replies[t] = Reply("manager", "ListenerInfo", "", "", listener_info)
                      /\ listener_info # None
                \/ primary_bind = "failed"
                \/ aux_bind = "failed"
    /\ [][\A t \in Tokens :
             (HandlesNotifyListening(t) /\ ListenersBound) =>
                 replies'[t] = Reply("manager", "ListenerInfo", "", "", listener_info)]_vars
    /\ [](ListenersBound => listening_notifiers = <<>>)

\* C8's case: one NotifyListening was submitted before the listeners were
\* bound and another after, and both are answered.
C8_Witness ==
    \E t1, t2 \in ListenerInfoReplies :
        /\ t1 \in early
        /\ t2 \notin early
        /\ ListenersBound

\* run() returned before it entered its loop.
ReturnedBeforeLoop == pc = "returned" /\ ~dialer_started

\* C10 as claimed: only a primary listener bind failure keeps run() from its
\* loop; after an auxiliary bind failure the Dialer is started all the same.
C10_OnlyPrimaryFailureIsFatal ==
    /\ ReturnedBeforeLoop => primary_bind = "failed"
    /\ aux_bind = "failed" => dialer_started

\* C10, amended: a listener bind failure, of the primary listener or of a
\* configured auxiliary one, is the only condition that keeps run() from its
\* loop, and either of them does.
C10_OnlyListenerFailureIsFatal ==
    ReturnedBeforeLoop <=> (primary_bind = "failed" \/ aux_bind = "failed")

\* C10's case: the primary listener was bound and had reported an event when
\* the auxiliary bind failed, and run() returned before its loop.
C10_Witness ==
    /\ primary_bind = "ok"
    /\ aux_bind = "failed"
    /\ emitted > 0
    /\ ReturnedBeforeLoop

\* handle_event takes the event e from the internal event queue.
HandlesEvent(e) ==
    /\ pc = "loop"
    /\ internal_event_rx # <<>>
    /\ Head(internal_event_rx) = e
    /\ internal_event_rx' = Tail(internal_event_rx)
    /\ handled_events' = handled_events + 1

\* The events that wait in the internal event queue and are no substreams.
LifecycleEvents == {e \in Range(internal_event_rx) : e.type # "NewInboundSubstream"}

\* C11: every event other than a NewInboundSubstream that the manager takes
\* from the internal event queue is sent once on the external channel, after
\* the events taken before it, with or without a subscriber; and nothing else
\* is ever sent on the external channel.
C11_EventsRepublishedInOrder ==
    [][/\ \A e \in LifecycleEvents :
             HandlesEvent(e) =>
                 /\ published' = Append(published, e)
                 /\ publish_failed => publish_failed'
                 /\ pc' = "loop"
       /\ published' # published =>
             \E e \in LifecycleEvents : HandlesEvent(e)]_vars

\* C11's case: two events of different kinds were taken and published, and
\* one of the sends found no subscriber.
C11_Witness ==
    /\ Len(published) = 2
    /\ published[1].type # published[2].type
    /\ publish_failed
    /\ pc = "loop"

\* C12: no NewInboundSubstream is ever on the external event channel, and what
\* a protocol handler is notified of is a NewInboundSubstream of a protocol
\* with a registered handler; handling one publishes nothing.
C12_SubstreamsNotRepublished ==
    /\ \A i \in DOMAIN published : published[i].type # "NewInboundSubstream"
    /\ \A i \in DOMAIN notified :
          /\ notified[i].type = "NewInboundSubstream"
          /\ notified[i].protocol \in protocols
    /\ Len(published) + Len(notified) <= handled_events

\* C12's case: a substream of a registered protocol was handled: its handler
\* was notified and nothing was published.
C12_Witness ==
    /\ handled_events = 1
    /\ notified = <<NewInboundSubstream("n2", "p_reg")>>
    /\ published = <<>>

\* C13: handling a NewInboundSubstream of a protocol with no registered handler
\* changes nothing but the internal event queue: nothing is published, no
\* handler is notified, no reply, request or dial is touched, and the manager
\* is in its loop.
C13_UnknownProtocolDropped ==
    [][\A e \in Range(internal_event_rx) :
          (HandlesEvent(e) /\ e.type = "NewInboundSubstream" /\ e.protocol \notin protocols)
             => /\ pc' = "loop"
                /\ UNCHANGED <<OwnState, sending, request_rx, dialer_rx, dialer_rx_open,
                               published, publish_failed, notified, replies, shutdown,
                               dialer_forwarded, pending_dials, connect_attempts>>]_vars

\* C13's case: a substream of an unregistered protocol was handled while a dial
\* was in flight, and the manager went on to handle a request.
C13_Witness ==
    /\ handled_events = 1
    /\ emitted = 1
    /\ notified = <<>>
    /\ published = <<>>
    /\ pending_dials["n1"] # None
    /\ handled_requests = 2
    /\ pc = "loop"

\* run() is in its loop (in the select, or in a handler at a send to the Dialer).
InLoop == pc \in {"loop", "send_dialer_request", "cancel_dial_send"}

\* C15: run() leaves its loop only by the select's shutdown arm: a run() that
\* returned after entering the loop returned with the shutdown signal fired,
\* and no handler's step ends it.
C15_OnlyShutdownEndsLoop ==
    /\ [](pc = "returned" /\ dialer_started => shutdown)
    /\ [][InLoop /\ pc' = "returned" =>
             shutdown /\ pc = "loop" /\ UNCHANGED <<handled_requests, handled_events>>]_vars

\* C15's case: a directory lookup failed, a Dial could not be forwarded because
\* the Dialer was gone, a substream had no handler, and run() is in its loop.
C15_Witness ==
    /\ pc = "loop"
    /\ \E t1, t2 \in Tokens :
          /\ lookup[t1] \in DirectoryErrors
          /\ lookup[t2] = "ok"
          /\ replies[t2] = Dropped
          /\ DialsWith(dialer_forwarded, t2) = {}
    /\ handled_events = 1
    /\ notified = <<>>
    /\ published = <<>>

\* What handle_request sends to the Dialer for a request.
ForwardOf(req) ==
    IF req.type = "DialPeer" /\ lookup[req.reply] = "ok"
    THEN <<Dial(req.node_id, req.reply)>>
    ELSE IF req.type = "CancelDial" THEN <<CancelPendingDial(req.node_id)>> ELSE <<>>

RECURSIVE ForwardsOf(_)
\* What handle_request sends to the Dialer for the requests q, in q's order.
ForwardsOf(q) == IF q = <<>> THEN <<>> ELSE ForwardOf(Head(q)) \o ForwardsOf(Tail(q))

IsPrefix(p, q) == Len(p) <= Len(q) /\ p = SubSeq(q, 1, Len(p))
IsSuffix(p, q) == Len(p) <= Len(q) /\ p = SubSeq(q, Len(q) - Len(p) + 1, Len(q))

\* The requests handle_request has taken, in the order they were submitted.
HandledLog == SubSeq(request_log, 1, handled_requests)

\* C16: the requests are handled in the order the request channel took them,
\* one at a time (nothing is taken while a send to the Dialer is pending); the
\* Dialer's channel is given what they forward in that same order, all of it
\* while the Dialer holds its receiver, and the Dialer takes it from the head.
C16_RequestsForwardedInOrder ==
    /\ handled_requests <= Len(request_log)
    /\ pc # "returned" => request_rx = SubSeq(request_log, handled_requests + 1, Len(request_log))
    /\ pc = "loop" => sending = None
    /\ IsPrefix(dialer_forwarded, ForwardsOf(HandledLog))
    /\ dialer_rx_open => dialer_forwarded \o sending = ForwardsOf(HandledLog)
    /\ dialer_rx_open => IsSuffix(dialer_rx, dialer_forwarded)

\* C16's case: DialPeer(n1) and then CancelDial(n1) were submitted, and the
\* Dialer's channel got Dial(n1) and then CancelPendingDial(n1).
C16_Witness ==
    /\ request_log = <<DialPeer("n1", 1), CancelDial("n1")>>
    /\ dialer_forwarded = <<Dial("n1", 1), CancelPendingDial("n1")>>

\* C14: once the shutdown signal has fired with run() in its loop, in the
\* select or in a handler that forwards to the Dialer, run() eventually
\* returns; and a run() that returned handles no request and no event.
C14_ShutdownEndsRun ==
    /\ (shutdown /\ InLoop) ~> (pc = "returned")
    /\ [][pc = "returned" => UNCHANGED <<pc, handled_requests, handled_events>>]_vars

\* C14's case: the shutdown signal fired and run() returned from its loop
\* after forwarding to the Dialer, with a request left in the queue unhandled.
C14_Witness ==
    /\ shutdown
    /\ pc = "returned"
    /\ dialer_forwarded # <<>>
    /\ handled_requests < submitted

\* The step reports PeerConnected(n) on the internal event channel.
ReportsPeerConnected(n) == internal_event_rx' = Append(internal_event_rx, PeerConnected(n))

\* C17: PeerConnected is reported only by the step that completes protocol
\* identification on a connection, outbound or inbound; identification is
\* begun only by a successful handshake and the handshake only by a successful
\* transport connect; and the manager publishes PeerConnected only when it
\* takes one from the internal event queue.
C17_PeerConnectedAfterIdentify ==
    [][/\ \A n \in NodeIds :
            /\ ReportsPeerConnected(n) =>
                  \/ pending_dials[n] # None /\ dial_stage[n] = "identify"
                  \/ inbound_identifying' = inbound_identifying - 1
            /\ dial_stage'[n] # dial_stage[n] =>
                  \/ dial_stage'[n] = "connect" /\ pending_dials[n] = None
                  \/ dial_stage'[n] = "handshake" /\ dial_stage[n] = "connect"
                  \/ dial_stage'[n] = "identify" /\ dial_stage[n] = "handshake"
            /\ published' = Append(published, PeerConnected(n)) =>
                  HandlesEvent(PeerConnected(n))
       /\ inbound_identifying' > inbound_identifying =>
            inbound_handshakes' = inbound_handshakes - 1]_vars

\* C17's case: an outbound and an inbound connection were both published, and
\* the dial made it through connect, handshake and identification.
C17_Witness ==
    /\ \E i, j \in DOMAIN published :
          published[i] = PeerConnected("n1") /\ published[j] = PeerConnected("n2")
    /\ dial_stage["n1"] = "identify"
    /\ replies[1] = Reply("dialer", "Ok", "", "", None)

\* C18: the inbound connections that hold a handshake slot are never more
\* than max_simultaneous_inbound_connects.
C18_InboundHandshakesBounded ==
    /\ InboundInProgress <= max_simultaneous_inbound_connects
    /\ inbound_handshakes >= 0
    /\ inbound_identifying >= 0

\* C18's case: every slot is taken and one more connection has arrived.
C18_Witness ==
    /\ InboundInProgress = max_simultaneous_inbound_connects
    /\ inbound_arrived > max_simultaneous_inbound_connects
    /\ inbound_waiting > 0

\* A connection arrives with every handshake slot taken.
ArrivesAtLimit ==
    /\ inbound_arrived' = inbound_arrived + 1
    /\ InboundInProgress = max_simultaneous_inbound_connects

DialEndsAtConnect(n) ==
    /\ pending_dials[n] # None
    /\ pending_dials'[n] = None
    /\ dial_stage[n] = "connect"
    /\ dialer_rx' = dialer_rx

\* C20: a dial makes at most max_dial_attempts connect attempts, one after
\* the other; a dial whose connect attempts all fail ends after exactly
\* max_dial_attempts of them, PeerConnectFailed is reported and every reply
\* that waits for the dial gets the failure.
C20_DialAttemptsBounded ==
    /\ [](\A n \in NodeIds : dial_attempts[n] <= max_dial_attempts)
    /\ [][\A n \in NodeIds :
             /\ dial_attempts'[n] # dial_attempts[n] =>
                   \/ dial_attempts'[n] = dial_attempts[n] + 1 /\ dial_stage[n] = "connect"
                   \/ dial_attempts'[n] = 1 /\ pending_dials[n] = None
             /\ DialEndsAtConnect(n) =>
                   /\ dial_attempts[n] = max_dial_attempts
                   /\ internal_event_rx' = Append(internal_event_rx, PeerConnectFailed(n))
                   /\ \A r \in JoinedReplies(n) :
                         replies'[r] = Reply("dialer", "Err", "ConnectFailed", "", None)]_vars

\* C20's case: DialPeer was submitted once, the dial made max_dial_attempts
\* connect attempts, PeerConnectFailed was published and the reply is the
\* failure.
C20_Witness ==
    /\ request_log = <<DialPeer("n1", 1)>>
    /\ dial_attempts["n1"] = max_dial_attempts
    /\ dial_stage["n1"] = "connect"
    /\ published = <<PeerConnectFailed("n1")>>
    /\ replies[1] = Reply("dialer", "Err", "ConnectFailed", "", None)

\* A step of run() that assigns self.listener_info.
SetsListenerInfo == listener_info' # listener_info

\* C21: listener_info is assigned once: every step that changes it takes it
\* from None to Some of the ListenerInfo run_listeners built from the
\* addresses the listeners' listen() returned, so that no step changes it
\* once it is set; and the ListenerInfo it is set to carries an auxiliary
\* bind address exactly when the manager was constructed with an auxiliary
\* listener (aux_listener is Some until run_listeners takes it).
C21_ListenerInfoSetOnce ==
    [][SetsListenerInfo =>
          /\ listener_info = None
          /\ listener_info' = Some(run_listener_info')
          /\ primary_bind' = "ok"
          /\ listener_info'[1].bind_address \in PrimaryAddrs
          /\ (listener_info'[1].aux_bind_address # None) <=> aux_listener
          /\ aux_listener =>
                /\ aux_bind' = "ok"
                /\ listener_info'[1].aux_bind_address \in {Some(a) : a \in AuxAddrs}]_vars

\* C21's case: both listeners are bound, listener_info holds both addresses,
\* and the loop has since handled a request and an event.
C21_Witness ==
    /\ listener_info # None
    /\ listener_info[1].aux_bind_address # None
    /\ aux_bind = "ok"
    /\ handled_requests > 0
    /\ handled_events > 0

\* The handle_new_block_message invocations between acquiring the semaphore
\* permit and returning.
InNewBlock(t) ==
    /\ nb_args[t].op = "handle_new_block_message"
    /\ nb_pc[t] \notin {"idle", "acquire"}

\* C22: across the clones of the handlers, at most one invocation of
\* handle_new_block_message is between acquiring the semaphore permit and
\* returning; an invocation holds the permit exactly while it is there, and
\* every return, Ok or Err, gives the permit back: the permits left and the
\* permits held always add up to the one the semaphore was created with.
C22_OneNewBlockAtOnce ==
    /\ Cardinality({t \in NodeTasks : InNewBlock(t)}) <= 1
    /\ \A t \in NodeTasks : nb_permit[t] <=> InNewBlock(t)
    /\ new_block_request_semaphore + Cardinality({t \in NodeTasks : nb_permit[t]}) = 1

\* C22's case: one task waits in acquire() while another, in its second
\* call (its first one has returned its permit), holds the permit and
\* awaits the peer's answer.
C22_Witness ==
    \E t, u \in NewBlockTasks :
        /\ nb_pc[t] = "acquire"
        /\ nb_permit[u]
        /\ nb_calls[u] = 2
        /\ nb_pc[u] = "request_blocks_with_hashes_from_peer"

\* A step of AppState::update_cache, which calls get_updated_app_state.
CallsGetUpdated ==
    /\ wallet_calls' = wallet_calls + 1
    /\ last_call'.op = "update_cache"

\* C23: get_updated_app_state returns a snapshot exactly when the data was
\* written since the last call of it (so that two calls with no write between
\* them do not both return one), and the snapshot it returns is the data as
\* it is at the call.
C23_SnapshotIffUpdated ==
    [][CallsGetUpdated =>
          /\ (last_call'.result = "Some") <=> written
          /\ last_call'.result = "Some" => cached_data' = data]_vars

\* A step of refresh_single_transaction_state(tx_id) in which
\* get_any_transaction answers Ok(None): the transaction is not in the backend.
RefreshesMissing(tx_id) ==
    /\ wallet_calls' = wallet_calls + 1
    /\ last_call'.op = "refresh_single_transaction_state"
    /\ last_call'.tx_id = tx_id
    /\ last_call'.found = Some(None)

\* The transactions of a list other than tx_id, in the list's order.
OtherTxs(txs, tx_id) == SelectSeq(txs, LAMBDA tx : tx.tx_id # tx_id)

\* C28: refresh_single_transaction_state(tx_id) for a transaction that is
\* not in the backend does not panic, leaves tx_id in neither pending_txs nor
\* completed_txs, and leaves every other transaction of both lists as it was.
C28_MissingTxRemoved ==
    [][\A tx_id \in TxIds :
          RefreshesMissing(tx_id) =>
              /\ last_call'.result # "panic"
              /\ position(data'.pending_txs, tx_id) = None
              /\ position(data'.completed_txs, tx_id) = None
              /\ data'.pending_txs = OtherTxs(data.pending_txs, tx_id)
              /\ data'.completed_txs = OtherTxs(data.completed_txs, tx_id)]_vars

\* C24: once a handle_new_block_message call has fetched a block and stored
\* it, no request for that hash is sent to a peer any more: every later call
\* for the hash (one whose block_exists lookup comes after the block was
\* stored) sends no request, and returns Ok(()) when its lookup answers.
C24_FirstFetchStopsLater ==
    /\ late_requests = {}
    /\ \A t \in NewBlockTasks :
          nb_trace[t].after_fetch =>
              /\ ~nb_trace[t].requested
              /\ nb_trace[t].exists \in {"true", "Err"}
              /\ nb_trace[t].exists = "true" => nb_trace[t].result = "Ok"

\* C24's case: one task has fetched and stored the block, the other, which
\* waited for the permit meanwhile, then found the block stored and returned
\* Ok(()) without a request.
C24_Witness ==
    \E t, u \in NewBlockTasks :
        /\ nb_trace[t].requested
        /\ should_propagate(nb_trace[t].add_block)
        /\ nb_args[t].block_hash \in fetched
        /\ nb_args[u].block_hash = nb_args[t].block_hash
        /\ nb_trace[u].after_fetch
        /\ nb_trace[u].exists = "true"
        /\ nb_trace[u].result = "Ok"
        /\ ~nb_trace[u].requested

\* The handle_block calls that have returned, made by a task itself or within
\* its handle_new_block_message.
HandleBlockReturned(t) ==
    /\ nb_pc[t] = "idle"
    /\ nb_trace[t].add_block # "none"

\* C25: a handle_block call that has returned has propagated the block
\* exactly when add_block answered BlockAddResult::Ok or ChainReorg and the
\* broadcast flag was true (never after BlockExists, OrphanBlock, an add_block
\* error or with a false flag), and a propagation excludes the source peer,
\* if there is one.
C25_PropagatesIffAddedAndBroadcast ==
    \A t \in NodeTasks :
        HandleBlockReturned(t) =>
            /\ (nb_trace[t].propagated # None) <=>
                    (nb_trace[t].add_block \in {"Ok", "ChainReorg"} /\ nb_args[t].broadcast)
            /\ nb_trace[t].propagated # None =>
                    Range(nb_args[t].source_peer) \subseteq
                        nb_trace[t].propagated[1].exclude_peers

\* The heights of block_nums whose fetch_block answered Ok, in request order.
RECURSIVE Fetchable(_)
Fetchable(i) ==
    IF i = 0 THEN <<>>
    ELSE IF fetch_results[i] = "Ok"
            THEN Append(Fetchable(i - 1), [height |-> block_nums[i]])
            ELSE Fetchable(i - 1)

\* C26: a FetchMatchingBlocks request that has been handled was answered Ok,
\* whatever fetch_block answered for the requested heights, and the response
\* holds exactly the blocks fetch_block provided, in request order (none when
\* no requested block could be fetched).
C26_FetchMatchingBlocksNeverFails ==
    fetch_pc = "returned" =>
        /\ fetch_response # None
        /\ fetch_response[1].result = "Ok"
        /\ Len(fetch_results) = Len(block_nums)
        /\ fetch_response[1].blocks = Fetchable(Len(block_nums))
        /\ (\A i \in DOMAIN block_nums : fetch_results[i] = "Err") =>
                fetch_response[1].blocks = <<>>

\* A request for a block the db does not hold between two it provides was
\* answered with the two.
C26_Witness ==
    /\ fetch_pc = "returned"
    /\ Len(block_nums) = 3
    /\ fetch_results = <<"Ok", "Err", "Ok">>
    /\ block_nums[2] > chain_tip
    /\ block_nums[1] # block_nums[3]
    /\ Len(fetch_response[1].blocks) = 2

\* The validators of the list that reject the transaction.
Rejecting ==
    {i \in DOMAIN validators :
        transaction \in Transactions /\ validators[i][transaction] # "Ok"}

\* C27: a validate call ran the validators in list order up to and including
\* the first one that rejects the transaction and returned that one's error,
\* running none after it; it returned Ok iff every validator accepts (also
\* for an empty list), having run them all.
C27_FirstErrorStops ==
    validate_result # "none" =>
        /\ \A j \in DOMAIN ran : ran[j] = j
        /\ (validate_result = "Ok") <=> (Rejecting = {})
        /\ Rejecting = {} => Len(ran) = Len(validators)
        /\ Rejecting # {} =>
              \E f \in Rejecting :
                  /\ \A i \in Rejecting : f <= i
                  /\ validate_result = validators[f][transaction]
                  /\ Len(ran) = f

\* An accepting validator, then two that reject with different errors: the
\* call returned the first error and did not run the third.
C27_Witness ==
    /\ validate_result # "none"
    /\ Len(validators) = 3
    /\ Rejecting = {2, 3}
    /\ validators[2][transaction] # validators[3][transaction]
    /\ validate_result = validators[2][transaction]
    /\ ran = <<1, 2>>

\* How often an id is in the returned list.
Occurrences(id) == Cardinality({i \in DOMAIN results : results[i].id = id})

\* C29: when monitor_transactions has returned through its completion break,
\* every id of tx_ids has reached the wait stage and is in the returned list
\* exactly once; "Done! All transactions monitored" is printed only if every
\* id of tx_ids has reached the stage.
C29_DoneOnlyWhenAllReached ==
    /\ monitor_exit = "complete" =>
          /\ reached = Range(tx_ids)
          /\ \A id \in Range(tx_ids) : Occurrences(id) = 1
    /\ printed = "Done! All transactions monitored" => reached = Range(tx_ids)

\* The manager waits in dialer_tx.send on a full Dialer request queue.
ManagerBlocked ==
    /\ sending # None
    /\ dialer_rx_open
    /\ ~DialerChannelRoom

\* A dial in flight has no room in the internal event queue for its outcome.
ReportBlocked ==
    /\ Len(internal_event_rx) = EVENT_CHANNEL_SIZE
    /\ \E n \in NodeIds : pending_dials[n] # None

DialPeerHandled(t) ==
    /\ lookup[t] # "none"
    /\ ~(sending # None /\ sending[1].reply = t)

\* The manager sent an error value on the reply channel of token t.
RepliedErr(t) == replies[t].by = "manager" /\ replies[t].kind = "Err"

\* The Dialer's queue accepted a Dial carrying the reply channel of token t.
DialAccepted(t) ==
    \E i \in DOMAIN dialer_forwarded :
        dialer_forwarded[i].type = "Dial" /\ dialer_forwarded[i].reply = t

\* C31: every DialPeer request the manager has handled ended in exactly one
\* of two outcomes: an error value sent on its reply channel, or a Dial
\* carrying the reply channel accepted by the Dialer's queue; a send that
\* fails on a closed Dialer queue does not drop the reply channel without a
\* value.
C31_DialPeerRepliesOrForwards ==
    \A t \in Tokens :
        DialPeerHandled(t) =>
            /\ RepliedErr(t) \/ DialAccepted(t)
            /\ ~(RepliedErr(t) /\ DialAccepted(t))

\* C32: once the request channel is closed and its stream has ended, run()
\* has returned only if the shutdown signal fired, and while it is in its
\* loop it takes the next internal event that waits and handles it.
C32_ClosedRequestsKeepLoop ==
    request_rx_terminated =>
        /\ pc = "returned" => shutdown
        /\ pc \in {"loop", "returned"}
        /\ (pc = "loop" /\ internal_event_rx # <<>>) => ENABLED handle_event

\* The request stream has ended, the shutdown signal has not fired, and an
\* event the listeners reported afterwards or before waits in the queue.
C32_Witness ==
    /\ request_rx_terminated
    /\ ~shutdown
    /\ pc = "loop"
    /\ internal_event_rx # <<>>
    /\ handled_requests > 0

\* The BlockEvents a returned handle_block call published.
PublishedBlockEvents(t) == nb_trace[t].events

\* C33: every handle_block call that has returned, with Ok or with Err, has
\* published exactly one block event: ValidBlockAdded when add_block
\* succeeded, AddBlockFailed when it failed.
C33_OneBlockEventPerCall ==
    \A t \in NodeTasks :
        HandleBlockReturned(t) =>
            /\ Len(PublishedBlockEvents(t)) = 1
            /\ nb_trace[t].add_block # "Err" =>
                    PublishedBlockEvents(t) = <<"ValidBlockAdded">>
            /\ nb_trace[t].add_block = "Err" =>
                    PublishedBlockEvents(t) = <<"AddBlockFailed">>

\* A step of update_cache on the clone.
CloneCallsGetUpdated ==
    /\ wallet_calls' = wallet_calls + 1
    /\ last_call'.op = "clone.update_cache"

\* C34: when update_cache returns on the AppState or on its clone, the cache
\* of the one it was called on equals the shared data as of that call, also
\* when the other one has called update_cache since the data was updated.
C34_EveryCloneSeesUpdates ==
    [][/\ CallsGetUpdated => cached_data' = data'
       /\ CloneCallsGetUpdated => clone_cached_data' = data']_vars

====
